---- MODULE Spec2Model ----
(***************************************************************************)
(* State-machine model of the FWaaS v2 iptables driver                      *)
(* (neutron_fwaas/services/firewall/drivers/linux/iptables_fwaas_v2.py).    *)
(*                                                                         *)
(* One driver object (its pre_firewall field), the iptables managers of the *)
(* routers it is applied to (in-memory tables and the committed tables),    *)
(* and one action per driver entry point.  Python None and '' are both the  *)
(* empty string here: the driver only ever tests these fields for truth.    *)
(***************************************************************************)
EXTENDS Integers, Sequences, FiniteSets, TLC

VARIABLES agent_mode, pre_firewall, ipt, last, events, nops, probe, db, call,
          threads, ctl

vars == <<agent_mode, pre_firewall, ipt, last, events, nops, probe, db, call,
          threads, ctl>>

(***************************************************************************)
(* Bounds of the model.                                                    *)
(***************************************************************************)
MaxOps == 2

(***************************************************************************)
(* Module constants of the driver.                                         *)
(***************************************************************************)
FWAAS_DEFAULT_CHAIN == "fwaas-default-policy"
INGRESS_DIRECTION == "ingress"
EGRESS_DIRECTION == "egress"
IPV4 == "ipv4"
IPV6 == "ipv6"
INTERNAL_DEV_PREFIX == "qr-"
SNAT_INT_DEV_PREFIX == "sg-"
ROUTER_2_FIP_DEV_PREFIX == "rfp-"
MAX_INTF_NAME_LEN == 14

FWAAS_TO_IPTABLE_ACTION_MAP(action) ==
    CASE action = "allow" -> "ACCEPT"
      [] action = "deny" -> "DROP"
      [] action = "reject" -> "REJECT"

CHAIN_NAME_PREFIX(direction) ==
    IF direction = INGRESS_DIRECTION THEN "i" ELSE "o"

\* as IPTABLES_DIR, with the two sides exchanged
IPTABLES_DIR_swapped(direction) ==
    IF direction = INGRESS_DIRECTION THEN "-i" ELSE "-o"

IPTABLES_DIR(direction) ==
    IF direction = INGRESS_DIRECTION THEN "-o" ELSE "-i"

IP_VER_TAG(ver) ==
    IF ver = IPV4 THEN "v4" ELSE "v6"

(***************************************************************************)
(* Strings.                                                                *)
(***************************************************************************)
None == ""

Min(a, b) == IF a < b THEN a ELSE b

\* s[:n]
Prefix(s, n) == SubSeq(s, 1, Min(Len(s), n))

\* sub in s
Contains(s, sub) ==
    \E i \in 1..(Len(s) - Len(sub) + 1) : SubSeq(s, i, i + Len(sub) - 1) = sub

\* ' '.join(args)
RECURSIVE Join(_)
Join(args) ==
    IF Len(args) = 0 THEN ""
    ELSE IF Len(args) = 1 THEN args[1]
    ELSE args[1] \o " " \o Join(Tail(args))

\* str(ip_version)
Str(n) == IF n = 4 THEN "4" ELSE "6"

RECURSIVE Flatten(_)
Flatten(seqs) ==
    IF Len(seqs) = 0 THEN <<>> ELSE Head(seqs) \o Flatten(Tail(seqs))

Range(s) == {s[i] : i \in 1..Len(s)}

(***************************************************************************)
(* The iptables manager of neutron (neutron.agent.linux.iptables_manager), *)
(* which the driver drives: wrapped chain names, chains, rules.            *)
(***************************************************************************)
binary_name == "neutron-l3-agent"
MAX_CHAIN_LEN_WRAP == 11

get_chain_name(chain_name) == Prefix(chain_name, MAX_CHAIN_LEN_WRAP)

\* A filter table as IptablesManager.__init__ leaves it: the wrapped built-in
\* chains exist and hold no rule.
EmptyTable == [chains |-> {"INPUT", "OUTPUT", "FORWARD"}, rules |-> <<>>]

add_chain(tbl, name) ==
    [tbl EXCEPT !.chains = @ \cup {get_chain_name(name)}]

\* Removes the chain, its rules, and every rule that jumps to it.
remove_chain(tbl, name) ==
    LET n == get_chain_name(name)
        jump_snippet == "-j " \o binary_name \o "-" \o n
    IN  IF n \notin tbl.chains THEN tbl
        ELSE [chains |-> tbl.chains \ {n},
              rules |-> SelectSeq(tbl.rules,
                          LAMBDA r : r.chain # n /\ ~Contains(r.rule, jump_snippet))]

\* LookupError for an unknown chain is the caller's to handle (see AddRule).
add_rule(tbl, chain, rule) ==
    [tbl EXCEPT !.rules = Append(@, [chain |-> get_chain_name(chain), rule |-> rule])]

(***************************************************************************)
(* Routers (RouterInfo objects) and their iptables managers, named by the  *)
(* namespace each manager works in.                                        *)
(***************************************************************************)
R1 == [id |-> "R1", distributed |-> FALSE, snat_iptables_manager |-> None,
       dist_fip_count |-> 0]
R2 == [id |-> "R2", distributed |-> TRUE, snat_iptables_manager |-> "snat-R2",
       dist_fip_count |-> 1]
R3 == [id |-> "R3", distributed |-> TRUE, snat_iptables_manager |-> None,
       dist_fip_count |-> 0]
R4 == [id |-> "R4", distributed |-> TRUE, snat_iptables_manager |-> "snat-R4",
       dist_fip_count |-> 0]

Routers == {R1, R2, R3, R4}

\* ri.iptables_manager
iptables_manager(ri) == "qrouter-" \o ri.id

Namespaces ==
    {iptables_manager(ri) : ri \in Routers}
        \cup {ri.snat_iptables_manager : ri \in {r \in Routers : r.snat_iptables_manager # None}}

AgentModes == {"dvr", "dvr_snat"}

(***************************************************************************)
(* The world a handler runs in: the managers, the exception raised so far  *)
(* (None while none is), the external events issued, the number of commits *)
(* and of commands attempted, and the fault of the environment: the commit *)
(* (site "commit") that is to fail with exception kind, or the command     *)
(* (site "execute") that is to exit with status code; at 0 means none.     *)
(* Every statement is skipped once an exception is raised.                 *)
(***************************************************************************)
World(mgrs, fault) ==
    [ipt |-> mgrs, raised |-> None, events |-> <<>>, ncommit |-> 0, nexec |-> 0,
     fault |-> fault]

Table(w, ipt_mgr, ver) == w.ipt[ipt_mgr].mem[ver]

SetTable(w, ipt_mgr, ver, tbl) ==
    IF w.raised # None THEN w
    ELSE [w EXCEPT !.ipt[ipt_mgr].mem[ver] = tbl]

\* table.add_chain(name)
AddChain(w, ipt_mgr, ver, name) ==
    SetTable(w, ipt_mgr, ver, add_chain(Table(w, ipt_mgr, ver), name))

\* table.add_rule(name, rule): LookupError when the chain is unknown
AddRule(w, ipt_mgr, ver, name, rule) ==
    IF w.raised # None THEN w
    ELSE IF get_chain_name(name) \notin Table(w, ipt_mgr, ver).chains
         THEN [w EXCEPT !.raised = "LookupError"]
    ELSE SetTable(w, ipt_mgr, ver, add_rule(Table(w, ipt_mgr, ver), name, rule))

\* ipt_mgr.defer_apply_off(): the in-memory tables become the effective ones,
\* unless applying them fails.
defer_apply_off(w, ipt_mgr) ==
    IF w.raised # None THEN w
    ELSE IF w.fault.site = "commit" /\ w.fault.at = w.ncommit + 1
         THEN [w EXCEPT !.ncommit = @ + 1, !.raised = w.fault.kind]
    ELSE [w EXCEPT !.ncommit = @ + 1,
                   !.ipt[ipt_mgr].kernel = w.ipt[ipt_mgr].mem,
                   !.events = Append(@, [type |-> "commit", ns |-> ipt_mgr, cmd |-> <<>>,
                                         rc |-> 0])]

\* linux_utils.execute(cmd, run_as_root=True, check_exit_code=True,
\* extra_ok_codes=[1]): the command runs in namespace cmd[4] and exits with
\* status rc; RuntimeError unless rc is 0 or one of the extra ok codes
execute(w, cmd) ==
    IF w.raised # None THEN w
    ELSE LET rc == IF w.fault.site = "execute" /\ w.fault.at = w.nexec + 1
                   THEN w.fault.code ELSE 0
         IN  [w EXCEPT !.nexec = @ + 1,
                       !.events = Append(@, [type |-> "execute", ns |-> cmd[4],
                                             cmd |-> cmd, rc |-> rc]),
                       !.raised = IF rc \in {0, 1} THEN None ELSE "RuntimeError"]

\* for x in loop_seq: loop_w = LoopBody(loop_w, x)
\* (each iteration's result is computed before the next one starts)
RECURSIVE ForEach(_, _, _)
ForEach(LoopBody(_, _), loop_w, loop_seq) ==
    IF Len(loop_seq) = 0 THEN loop_w
    ELSE CHOOSE loop_r \in {ForEach(LoopBody, loop_x, Tail(loop_seq)) :
                               loop_x \in {LoopBody(loop_w, Head(loop_seq))}} : TRUE

(***************************************************************************)
(* IptablesFwaasDriver: helpers.                                           *)
(***************************************************************************)
\* as _get_intf_name, with the whole name
_get_intf_name_whole(if_prefix, port_id) == if_prefix \o port_id

_get_intf_name(if_prefix, port_id) ==
    Prefix(if_prefix \o port_id, MAX_INTF_NAME_LEN)

\* as _get_ipt_mgrs_with_if_prefix, without the test of the agent mode
_get_ipt_mgrs_with_if_prefix_any_mode(mode, ri) ==
    IF ~ri.distributed
    THEN <<[ipt |-> iptables_manager(ri), if_prefix |-> INTERNAL_DEV_PREFIX]>>
    ELSE (IF ri.snat_iptables_manager # None
          THEN <<[ipt |-> ri.snat_iptables_manager, if_prefix |-> SNAT_INT_DEV_PREFIX]>>
          ELSE <<>>)
         \o
         (IF ri.dist_fip_count # 0
          THEN <<[ipt |-> iptables_manager(ri), if_prefix |-> ROUTER_2_FIP_DEV_PREFIX]>>
          ELSE <<>>)

_get_ipt_mgrs_with_if_prefix(mode, ri) ==
    IF ~ri.distributed
    THEN <<[ipt |-> iptables_manager(ri), if_prefix |-> INTERNAL_DEV_PREFIX]>>
    ELSE (IF mode = "dvr_snat" /\ ri.snat_iptables_manager # None
          THEN <<[ipt |-> ri.snat_iptables_manager, if_prefix |-> SNAT_INT_DEV_PREFIX]>>
          ELSE <<>>)
         \o
         (IF ri.dist_fip_count # 0
          THEN <<[ipt |-> iptables_manager(ri), if_prefix |-> ROUTER_2_FIP_DEV_PREFIX]>>
          ELSE <<>>)

_get_chain_name(fwid, ver, direction) ==
    CHAIN_NAME_PREFIX(direction) \o IP_VER_TAG(ver) \o fwid

_drop_invalid_packets_rule == "-m state --state INVALID -j DROP"

_allow_established_rule == "-m state --state ESTABLISHED,RELATED -j ACCEPT"

_action_arg(action) ==
    IF action # None THEN "-j " \o action ELSE ""

_protocol_arg(protocol) ==
    IF protocol # None THEN "-p " \o protocol ELSE ""

\* as _port_arg, without the test of the protocol
_port_arg_any_protocol(direction, protocol, port) ==
    IF port = None THEN ""
    ELSE "--" \o direction \o " " \o port

_port_arg(direction, protocol, port) ==
    IF ~(protocol \in {"udp", "tcp"} /\ port # None) THEN ""
    ELSE "--" \o direction \o " " \o port

_ip_prefix_arg(direction, ip_prefix) ==
    IF ip_prefix # None THEN "-" \o direction \o " " \o ip_prefix ELSE ""

_convert_fwaas_to_iptables_rule(rule) ==
    LET action == FWAAS_TO_IPTABLE_ACTION_MAP(rule.action)
        args == <<_protocol_arg(rule.protocol),
                  _port_arg("dport", rule.protocol, rule.destination_port),
                  _port_arg("sport", rule.protocol, rule.source_port),
                  _ip_prefix_arg("s", rule.source_ip_address),
                  _ip_prefix_arg("d", rule.destination_ip_address),
                  _action_arg(action)>>
    IN  Join(args)

_remove_chain_by_name(w, ver, chain_name, ipt_mgr) ==
    SetTable(w, ipt_mgr, ver, remove_chain(Table(w, ipt_mgr, ver), chain_name))

\* as _remove_default_chains, removing nothing
_remove_default_chains_none(w, nsid) == w

_remove_default_chains(w, nsid) ==
    _remove_chain_by_name(
        _remove_chain_by_name(w, IPV4, FWAAS_DEFAULT_CHAIN, nsid),
        IPV6, FWAAS_DEFAULT_CHAIN, nsid)

\* as _remove_chains, removing nothing
_remove_chains_none(w, fwid, ipt_mgr) == w

_remove_chains(w, fwid, ipt_mgr) ==
    ForEach(LAMBDA acc_ver, it_ver :
                ForEach(LAMBDA acc_dir, it_dir :
                            _remove_chain_by_name(
                                acc_dir, it_ver, _get_chain_name(fwid, it_ver, it_dir), ipt_mgr),
                        acc_ver, <<INGRESS_DIRECTION, EGRESS_DIRECTION>>),
            w, <<IPV4, IPV6>>)

_add_default_policy_chain_v4v6(w, ipt_mgr) ==
    LET w1 == AddChain(w, ipt_mgr, IPV4, FWAAS_DEFAULT_CHAIN)
        w2 == AddRule(w1, ipt_mgr, IPV4, FWAAS_DEFAULT_CHAIN, "-j DROP")
        w3 == AddChain(w2, ipt_mgr, IPV6, FWAAS_DEFAULT_CHAIN)
    IN  AddRule(w3, ipt_mgr, IPV6, FWAAS_DEFAULT_CHAIN, "-j DROP")

_add_rules_to_chain(w, ipt_mgr, ver, chain_name, rules) ==
    ForEach(LAMBDA acc_rule, it_rule : AddRule(acc_rule, ipt_mgr, ver, chain_name, it_rule), w, rules)

\* the jumps from FORWARD into the chains of the firewall that exist, one
\* for each port, version and direction
_enable_policy_chain_jumps(w, fwid, ipt_if_prefix, router_fw_ports) ==
    LET bname == binary_name
        ipt_mgr == ipt_if_prefix.ipt
        if_prefix == ipt_if_prefix.if_prefix
        Jumps(w0, ver, direction) ==
            LET chain_name == get_chain_name(_get_chain_name(fwid, ver, direction))
            IN  IF chain_name \in Table(w0, ipt_mgr, ver).chains
                THEN ForEach(LAMBDA acc_port, it_port :
                                 _add_rules_to_chain(
                                     acc_port, ipt_mgr, ver, "FORWARD",
                                     <<IPTABLES_DIR(direction) \o " "
                                         \o _get_intf_name(if_prefix, it_port)
                                         \o " -j " \o bname \o "-" \o chain_name>>),
                             w0, router_fw_ports)
                ELSE w0
    IN  ForEach(LAMBDA acc_ver, it_ver :
                    ForEach(LAMBDA acc_dir, it_dir : Jumps(acc_dir, it_ver, it_dir),
                            acc_ver, <<INGRESS_DIRECTION, EGRESS_DIRECTION>>),
                w, <<IPV4, IPV6>>)

\* jump to DROP_ALL policy: one loop over the ports, for the side flag
_enable_policy_chain_default(w, ipt_if_prefix, router_fw_ports, flag) ==
    LET bname == binary_name
        ipt_mgr == ipt_if_prefix.ipt
        if_prefix == ipt_if_prefix.if_prefix
        chain_name == get_chain_name(FWAAS_DEFAULT_CHAIN)
    IN  ForEach(LAMBDA acc_port, it_port :
                    LET jump_rule ==
                            <<flag \o " " \o _get_intf_name(if_prefix, it_port)
                                \o " -j " \o bname \o "-" \o chain_name>>
                    IN  _add_rules_to_chain(
                            _add_rules_to_chain(acc_port, ipt_mgr, IPV4, "FORWARD", jump_rule),
                            ipt_mgr, IPV6, "FORWARD", jump_rule),
                w, router_fw_ports)

\* as _enable_policy_chain, with the jumps to the default chain added first
_enable_policy_chain_default_first(w, fwid, ipt_if_prefix, router_fw_ports) ==
    LET wa == _enable_policy_chain_default(w, ipt_if_prefix, router_fw_ports, "-o")
        wb == _enable_policy_chain_default(wa, ipt_if_prefix, router_fw_ports, "-i")
    IN  _enable_policy_chain_jumps(wb, fwid, ipt_if_prefix, router_fw_ports)

_enable_policy_chain(w, fwid, ipt_if_prefix, router_fw_ports) ==
    LET wa == _enable_policy_chain_jumps(w, fwid, ipt_if_prefix, router_fw_ports)
        wb == _enable_policy_chain_default(wa, ipt_if_prefix, router_fw_ports, "-o")
    IN  _enable_policy_chain_default(wb, ipt_if_prefix, router_fw_ports, "-i")

(***************************************************************************)
(* Chain synthesis.                                                        *)
(***************************************************************************)
\* as RuleVer, with every rule taken for an IPv4 rule
RuleVer_v4only(rule) == IPV4

\* if rule['ip_version'] == 4: ver = IPV4 else: ver = IPV6
RuleVer(rule) == IF rule.ip_version = 4 THEN IPV4 ELSE IPV6

_setup_chains(w, firewall, ipt_if_prefix, router_fw_ports) ==
    LET egress_rule_list == firewall.egress_rule_list
        ingress_rule_list == firewall.ingress_rule_list
        fwid == firewall.id
        ipt_mgr == ipt_if_prefix.ipt
        invalid_rule == _drop_invalid_packets_rule
        est_rule == _allow_established_rule
        NewChain(w0, ver, name) ==
            AddRule(AddRule(AddChain(w0, ipt_mgr, ver, name),
                            ipt_mgr, ver, name, invalid_rule),
                    ipt_mgr, ver, name, est_rule)
        wa == ForEach(LAMBDA acc_ver, it_ver :
                          ForEach(LAMBDA acc_name, it_name : NewChain(acc_name, it_ver, it_name),
                                  acc_ver,
                                  <<_get_chain_name(fwid, it_ver, INGRESS_DIRECTION),
                                    _get_chain_name(fwid, it_ver, EGRESS_DIRECTION)>>),
                      w, <<IPV4, IPV6>>)
        UserRule(w0, rule, direction) ==
            IF ~rule.enabled THEN w0
            ELSE LET iptbl_rule == _convert_fwaas_to_iptables_rule(rule)
                     ver == RuleVer(rule)
                 IN  AddRule(w0, ipt_mgr, ver,
                             _get_chain_name(fwid, ver, direction), iptbl_rule)
        wb == ForEach(LAMBDA acc_rule, it_rule : UserRule(acc_rule, it_rule, INGRESS_DIRECTION),
                      wa, ingress_rule_list)
        wc == ForEach(LAMBDA acc_rule, it_rule : UserRule(acc_rule, it_rule, EGRESS_DIRECTION),
                      wb, egress_rule_list)
    IN  _enable_policy_chain(wc, fwid, ipt_if_prefix, router_fw_ports)

\* for ri, router_fw_ports in apply_list: for ipt_if_prefix in ...: TargetBody
ForEachTarget(TargetBody(_, _, _), w, mode, apply_list) ==
    ForEach(LAMBDA acc_info, it_info :
                ForEach(LAMBDA acc_tgt, it_tgt :
                            TargetBody(acc_tgt, it_tgt, it_info[2]),
                        acc_info, _get_ipt_mgrs_with_if_prefix(mode, it_info[1])),
            w, apply_list)

\* as _setup_firewall_target, committing before the chains of the firewall
\* are set up
_setup_firewall_target_early_commit(w, firewall, ipt_if_prefix, router_fw_ports) ==
    LET ipt_mgr == ipt_if_prefix.ipt
        w1 == _remove_chains(w, firewall.id, ipt_mgr)
        w2 == _remove_default_chains(w1, ipt_mgr)
        w3 == _add_default_policy_chain_v4v6(w2, ipt_mgr)
        w4 == defer_apply_off(w3, ipt_mgr)
    IN  _setup_chains(w4, firewall, ipt_if_prefix, router_fw_ports)

\* the body of the loops of _setup_firewall, for one target
_setup_firewall_target(w, firewall, ipt_if_prefix, router_fw_ports) ==
    LET ipt_mgr == ipt_if_prefix.ipt
        w1 == _remove_chains(w, firewall.id, ipt_mgr)
        w2 == _remove_default_chains(w1, ipt_mgr)
        w3 == _add_default_policy_chain_v4v6(w2, ipt_mgr)
        w4 == _setup_chains(w3, firewall, ipt_if_prefix, router_fw_ports)
    IN  defer_apply_off(w4, ipt_mgr)

_setup_firewall(w, mode, apply_list, firewall) ==
    ForEachTarget(LAMBDA acc_st, it_st, ports_st :
                      _setup_firewall_target(acc_st, firewall, it_st, ports_st),
                  w, mode, apply_list)

\* as Except, catching RuntimeError only
Except_runtime_only(w) ==
    IF w.raised = "RuntimeError"
    THEN [w EXCEPT !.raised = "FirewallInternalDriverError"]
    ELSE w

\* except (LookupError, RuntimeError): raise FirewallInternalDriverError
Except(w) ==
    IF w.raised \in {"LookupError", "RuntimeError"}
    THEN [w EXCEPT !.raised = "FirewallInternalDriverError"]
    ELSE w

\* as apply_default_policy_target, with the chains of the firewall left in place
apply_default_policy_target_keep(w, fwid, ipt_if_prefix, router_fw_ports) ==
    LET ipt_mgr == ipt_if_prefix.ipt
        w2 == _remove_default_chains(w, ipt_mgr)
        w3 == _add_default_policy_chain_v4v6(w2, ipt_mgr)
        w4 == _enable_policy_chain(w3, fwid, ipt_if_prefix, router_fw_ports)
    IN  defer_apply_off(w4, ipt_mgr)

\* the body of the loops of apply_default_policy, for one target
apply_default_policy_target(w, fwid, ipt_if_prefix, router_fw_ports) ==
    LET ipt_mgr == ipt_if_prefix.ipt
        w1 == _remove_chains(w, fwid, ipt_mgr)
        w2 == _remove_default_chains(w1, ipt_mgr)
        w3 == _add_default_policy_chain_v4v6(w2, ipt_mgr)
        w4 == _enable_policy_chain(w3, fwid, ipt_if_prefix, router_fw_ports)
    IN  defer_apply_off(w4, ipt_mgr)

apply_default_policy(w, mode, apply_list, firewall) ==
    Except(ForEachTarget(LAMBDA acc_dp, it_dp, ports_dp :
                             apply_default_policy_target(acc_dp, firewall.id, it_dp, ports_dp),
                         w, mode, apply_list))

(***************************************************************************)
(* Conntrack invalidation.                                                 *)
(***************************************************************************)
RuleLists(firewall) == <<firewall.egress_rule_list, firewall.ingress_rule_list>>

\* as _find_changed_rules, keeping only the new version of a changed rule
_find_changed_rules_new_only(pre_fw, firewall) ==
    LET InList(pre_fw_rules, fw_rules) ==
            Flatten([i \in 1..Len(pre_fw_rules) |->
                Flatten([j \in 1..Len(fw_rules) |->
                    IF pre_fw_rules[i].id = fw_rules[j].id
                          /\ pre_fw_rules[i] # fw_rules[j]
                    THEN <<fw_rules[j]>>
                    ELSE <<>>])])
    IN  Flatten([k \in 1..2 |-> InList(RuleLists(pre_fw)[k], RuleLists(firewall)[k])])

\* as _find_changed_rules, comparing the rules at the same place of the lists
_find_changed_rules_by_place(pre_fw, firewall) ==
    LET InList(pre_fw_rules, fw_rules) ==
            Flatten([i \in 1..Min(Len(pre_fw_rules), Len(fw_rules)) |->
                IF pre_fw_rules[i] # fw_rules[i]
                THEN <<pre_fw_rules[i], fw_rules[i]>>
                ELSE <<>>])
    IN  Flatten([k \in 1..2 |-> InList(RuleLists(pre_fw)[k], RuleLists(firewall)[k])])

_find_changed_rules(pre_fw, firewall) ==
    LET InList(pre_fw_rules, fw_rules) ==
            Flatten([i \in 1..Len(pre_fw_rules) |->
                Flatten([j \in 1..Len(fw_rules) |->
                    IF pre_fw_rules[i].id = fw_rules[j].id
                          /\ pre_fw_rules[i] # fw_rules[j]
                    THEN <<pre_fw_rules[i], fw_rules[j]>>
                    ELSE <<>>])])
    IN  Flatten([k \in 1..2 |-> InList(RuleLists(pre_fw)[k], RuleLists(firewall)[k])])

_find_removed_rules(pre_fw, firewall) ==
    LET InList(pre_fw_rules, fw_rules) ==
            LET fw_rule_ids == {fw_rules[j].id : j \in 1..Len(fw_rules)}
            IN  SelectSeq(pre_fw_rules, LAMBDA pre_fw_rule : pre_fw_rule.id \notin fw_rule_ids)
    IN  Flatten([k \in 1..2 |-> InList(RuleLists(pre_fw)[k], RuleLists(firewall)[k])])

\* as _find_new_rules, with the two firewalls not exchanged
_find_new_rules_unswapped(pre_fw, firewall) == _find_removed_rules(pre_fw, firewall)

_find_new_rules(pre_fw, firewall) == _find_removed_rules(firewall, pre_fw)

\* as _get_conntrack_filter_from_rule, with the source address as a fifth key
_get_conntrack_filter_from_rule_with_source(rule) ==
    (IF rule.protocol # None THEN <<"-p", rule.protocol>> ELSE <<>>)
    \o (IF rule.ip_version # 0 THEN <<"-f", "ipv" \o Str(rule.ip_version)>> ELSE <<>>)
    \o (IF rule.destination_port # None THEN <<"--dport", rule.destination_port>> ELSE <<>>)
    \o (IF rule.source_port # None THEN <<"--sport", rule.source_port>> ELSE <<>>)
    \o (IF rule.source_ip_address # None THEN <<"-s", rule.source_ip_address>> ELSE <<>>)

_get_conntrack_filter_from_rule(rule) ==
    (IF rule.protocol # None THEN <<"-p", rule.protocol>> ELSE <<>>)
    \o (IF rule.ip_version # 0 THEN <<"-f", "ipv" \o Str(rule.ip_version)>> ELSE <<>>)
    \o (IF rule.destination_port # None THEN <<"--dport", rule.destination_port>> ELSE <<>>)
    \o (IF rule.source_port # None THEN <<"--sport", rule.source_port>> ELSE <<>>)

\* rule is <<>> for the default rule=None, <<r>> for a rule r
_get_conntrack_cmd_from_rule(ipt_mgr, rule) ==
    LET prefixcmd == <<"ip", "netns", "exec", ipt_mgr>>
        cmd == <<"conntrack", "-D">>
    IN  IF rule # <<>>
        THEN prefixcmd \o cmd \o _get_conntrack_filter_from_rule(rule[1])
        ELSE prefixcmd \o cmd

\* as _remove_conntrack_by_cmd, without the except clause
_remove_conntrack_by_cmd_raising(w, cmd) ==
    IF cmd # <<>> THEN execute(w, cmd) ELSE w

\* a RuntimeError of the command is logged and goes no further
_remove_conntrack_by_cmd(w, cmd) ==
    IF cmd # <<>> /\ w.raised = None
    THEN LET w1 == execute(w, cmd)
         IN  IF w1.raised = "RuntimeError" THEN [w1 EXCEPT !.raised = None] ELSE w1
    ELSE w

\* as _remove_conntrack_new_firewall, flushing in the first target of a
\* router only
_remove_conntrack_new_firewall_first_target(w, mode, routers_list, firewall) ==
    ForEach(LAMBDA acc_ft, it_ft :
                LET targets_ft == _get_ipt_mgrs_with_if_prefix(mode, it_ft)
                IN  IF targets_ft = <<>> THEN acc_ft
                    ELSE _remove_conntrack_by_cmd(
                             acc_ft, _get_conntrack_cmd_from_rule(targets_ft[1].ipt, <<>>)),
            w, routers_list)

\* routers_list: list(set(...)), the routers of apply_list in the order the
\* set yields them
_remove_conntrack_new_firewall(w, mode, routers_list, firewall) ==
    ForEach(LAMBDA acc_ri, it_ri :
                ForEach(LAMBDA acc_tgt, it_tgt :
                            _remove_conntrack_by_cmd(
                                acc_tgt, _get_conntrack_cmd_from_rule(it_tgt.ipt, <<>>)),
                        acc_ri, _get_ipt_mgrs_with_if_prefix(mode, it_ri)),
            w, routers_list)

_remove_conntrack_updated_firewall(w, mode, routers_list, pre_fw, firewall) ==
    ForEach(LAMBDA acc_ri, it_ri :
                ForEach(LAMBDA acc_tgt, it_tgt :
                            LET ch_rules == _find_changed_rules(pre_fw, firewall)
                                i_rules == _find_new_rules(pre_fw, firewall)
                                r_rules == _find_removed_rules(pre_fw, firewall)
                                removed_conntrack_rules_list == ch_rules \o i_rules \o r_rules
                            IN  ForEach(LAMBDA acc_rule, it_rule :
                                            _remove_conntrack_by_cmd(
                                                acc_rule, _get_conntrack_cmd_from_rule(
                                                        it_tgt.ipt, <<it_rule>>)),
                                        acc_tgt, removed_conntrack_rules_list),
                        acc_ri, _get_ipt_mgrs_with_if_prefix(mode, it_ri)),
            w, routers_list)

(***************************************************************************)
(* Entry points.  Each yields the world it leaves and the new value of      *)
(* self.pre_firewall (<<>> for None, <<fw>> for dict(fw)).                 *)
(***************************************************************************)
\* as create_firewall_group, with the snapshot taken in both branches
create_firewall_group_snapshot_always(w, mode, apply_list, routers_list, firewall, pre) ==
    LET w2 == IF firewall.admin_state_up
              THEN _remove_conntrack_new_firewall(
                       _setup_firewall(w, mode, apply_list, firewall),
                       mode, routers_list, firewall)
              ELSE apply_default_policy(w, mode, apply_list, firewall)
    IN  [w |-> Except(w2),
         pre |-> IF w2.raised = None THEN <<firewall>> ELSE pre]

create_firewall_group(w, mode, apply_list, routers_list, firewall, pre) ==
    IF firewall.admin_state_up
    THEN LET w1 == _setup_firewall(w, mode, apply_list, firewall)
             w2 == _remove_conntrack_new_firewall(w1, mode, routers_list, firewall)
         IN  [w |-> Except(w2),
              pre |-> IF w2.raised = None THEN <<firewall>> ELSE pre]
    ELSE [w |-> Except(apply_default_policy(w, mode, apply_list, firewall)),
          pre |-> pre]

\* as delete_firewall_group_target, with the default chain left in place
delete_firewall_group_target_keep(w, fwid, ipt_if_prefix, router_fw_ports) ==
    LET ipt_mgr == ipt_if_prefix.ipt
        w1 == _remove_chains(w, fwid, ipt_mgr)
    IN  defer_apply_off(w1, ipt_mgr)

\* the body of the loops of delete_firewall_group, for one target
delete_firewall_group_target(w, fwid, ipt_if_prefix, router_fw_ports) ==
    LET ipt_mgr == ipt_if_prefix.ipt
        w1 == _remove_chains(w, fwid, ipt_mgr)
        w2 == _remove_default_chains(w1, ipt_mgr)
    IN  defer_apply_off(w2, ipt_mgr)

delete_firewall_group(w, mode, apply_list, firewall, pre) ==
    LET w3 == ForEachTarget(LAMBDA acc_del, it_del, ports_del :
                                delete_firewall_group_target(
                                    acc_del, firewall.id, it_del, ports_del),
                            w, mode, apply_list)
    IN  [w |-> Except(w3),
         pre |-> IF w3.raised = None THEN <<>> ELSE pre]

\* as update_firewall_group, with the snapshot taken in the admin_state_up
\* branch only
update_firewall_group_snapshot_up_only(w, mode, apply_list, routers_list, firewall, pre) ==
    LET w2 == IF firewall.admin_state_up
              THEN LET w1 == IF pre # <<>>
                             THEN _remove_conntrack_updated_firewall(
                                      w, mode, routers_list, pre[1], firewall)
                             ELSE _remove_conntrack_new_firewall(
                                      w, mode, routers_list, firewall)
                   IN  _setup_firewall(w1, mode, apply_list, firewall)
              ELSE apply_default_policy(w, mode, apply_list, firewall)
    IN  [w |-> Except(w2),
         pre |-> IF w2.raised = None /\ firewall.admin_state_up
                 THEN <<firewall>> ELSE pre]
\* as update_firewall_group, with the snapshot taken however the call ends
update_firewall_group_snapshot_on_failure(w, mode, apply_list, routers_list, firewall, pre) ==
    LET w2 == IF firewall.admin_state_up
              THEN LET w1 == IF pre # <<>>
                             THEN _remove_conntrack_updated_firewall(w, mode, routers_list, pre[1], firewall)
                             ELSE _remove_conntrack_new_firewall(w, mode, routers_list, firewall)
                   IN  _setup_firewall(w1, mode, apply_list, firewall)
              ELSE apply_default_policy(w, mode, apply_list, firewall)
    IN  [w |-> Except(w2), pre |-> <<firewall>>]

update_firewall_group(w, mode, apply_list, routers_list, firewall, pre) ==
    LET w2 == IF firewall.admin_state_up
              THEN LET w1 == IF pre # <<>>
                             THEN _remove_conntrack_updated_firewall(
                                      w, mode, routers_list, pre[1], firewall)
                             ELSE _remove_conntrack_new_firewall(
                                      w, mode, routers_list, firewall)
                   IN  _setup_firewall(w1, mode, apply_list, firewall)
              ELSE apply_default_policy(w, mode, apply_list, firewall)
    IN  [w |-> Except(w2),
         pre |-> IF w2.raised = None THEN <<firewall>> ELSE pre]

(***************************************************************************)
(* Inputs: rules, firewalls, ports, apply lists, faults.                   *)
(***************************************************************************)
Rule(id, enabled, action, protocol, ver, src, dst, sport, dport) ==
    [id |-> id, enabled |-> enabled, action |-> action, protocol |-> protocol,
     ip_version |-> ver, source_ip_address |-> src, destination_ip_address |-> dst,
     source_port |-> sport, destination_port |-> dport]

RA == Rule("r1", TRUE, "allow", "tcp", 4, None, None, None, "80")
RA2 == Rule("r1", FALSE, "deny", "udp", 4, None, "10.0.0.0/24", "1024", "53")
RB == Rule("r2", TRUE, "deny", "icmp", 4, "10.0.0.0/24", None, None, "22")
RC == Rule("r3", TRUE, "reject", None, 6, None, "2001:db8::/64", None, None)

\* <<ingress_rule_list, egress_rule_list>> as policies yield them (no rule id
\* twice in a list; one policy may serve both directions): a configuration,
\* the same with both lists permuted, and one with r1 changed and disabled in
\* the ingress list and gone from the egress list
RuleConfigs ==
    {<<<<RA, RB>>, <<RC, RA>>>>,
     <<<<RB, RA>>, <<RA, RC>>>>,
     <<<<RA2, RB>>, <<RC, RB>>>>}

FW1 == "11111111-a"
FW2 == "22222222-b"
FW3 == "33333333-c"
FW5 == "55555555-e"

Firewall(id, up, ingress, egress) ==
    [id |-> id, admin_state_up |-> up,
     ingress_rule_list |-> ingress, egress_rule_list |-> egress]

Firewalls ==
    {Firewall(FW1, up, c[1], c[2]) : up \in BOOLEAN, c \in RuleConfigs}
        \cup {Firewall(FW2, up, <<RB>>, <<>>) : up \in BOOLEAN}

\* one firewall of each id, for the calls that read nothing but the id
OnePerId(FWs) ==
    {CHOOSE f \in FWs : f.id = id : id \in {g.id : g \in FWs}}

\* Ports: P1, P2 on router R1, P3 on R2, P4 on R3 belong to group FW1, P5
\* on R1 to group FW2, P6 on R1 and P7 on R2 to group FW3 (a port is
\* associated with one firewall group).
P1 == "1a2b3c4d-5e6f"
P2 == "2a2b3c4d-5e6f"
P3 == "3a2b3c4d-5e6f"
P4 == "4a2b3c4d-5e6f"
P5 == "5a2b3c4d-5e6f"
P6 == "6a2b3c4d-5e6f"
P7 == "7a2b3c4d-5e6f"
P10 == "8a2b3c4d-5e6f"
P11 == "9a2b3c4d-5e6f"

\* the apply lists the agent may pass for a firewall group
ApplyLists(fwid) ==
    IF fwid = FW1
    THEN {<<<<R1, <<P1>>>>>>,
          <<<<R1, <<P1, P2>>>>, <<R2, <<P3>>>>>>,
          <<<<R3, <<P4>>>>>>}
    ELSE IF fwid = FW3
    THEN {<<<<R1, <<P6>>>>, <<R2, <<P7>>>>>>}
    ELSE IF fwid = FW5
    THEN {<<<<R3, <<P10>>>>>>,
          <<<<R4, <<P11>>>>>>,
          <<<<R3, <<P10>>>>, <<R4, <<P11>>>>>>}
    ELSE {<<<<R1, <<P5>>>>>>}

\* the orders list(set(...)) can yield the routers of an apply list in
RoutersLists(apply_list) ==
    LET rs == {apply_list[i][1] : i \in 1..Len(apply_list)}
    IN  {l \in [1..Cardinality(rs) -> rs] : Range(l) = rs}

NoFault == [site |-> None, at |-> 0, kind |-> None, code |-> 0]

(***************************************************************************)
(* The policy store (FirewallPluginV2Db): policies as ordered lists of     *)
(* rule ids, the policy and the 1-based position each rule row carries,    *)
(* and the audited flag of each policy.  The responses are the HTTP        *)
(* statuses of the REST surface.                                           *)
(***************************************************************************)
RuleIds == {"fwr0", "fwr1", "fwr2"}

PolicyIds == {"fwp0", "fwp1"}

\* an id no rule and no policy has
NoSuchId == "123"

\* a request attribute left out of the body
Unset == "unset"

\* the firewall_rules attribute left out of the body
UnsetList == <<Unset>>

\* converters.convert_to_boolean
convert_to_boolean(v) == v = "True"

\* the audited value the policies are created with
AUDITED == TRUE

IndexOf(seq, x) == CHOOSE i \in 1..Len(seq) : seq[i] = x

Without(seq, x) == SelectSeq(seq, LAMBDA y : y # x)

\* list.insert(position - 1, x)
InsertAt(seq, position, x) ==
    SubSeq(seq, 1, position - 1) \o <<x>> \o SubSeq(seq, position, Len(seq))

\* fwp0 exists and is empty, fwp1 is still to be created; no rule is in a policy
InitDb ==
    [exists |-> [p \in PolicyIds |-> p = "fwp0"],
     firewall_rules |-> [p \in PolicyIds |-> <<>>],
     audited |-> [p \in PolicyIds |-> AUDITED],
     firewall_policy_id |-> [r \in RuleIds |-> None],
     position |-> [r \in RuleIds |-> 0]]

NoCall == [op |-> "init", id |-> None, firewall_rule_id |-> None, insert_before |-> None,
           insert_after |-> None, audited |-> Unset, status |-> "ok"]

\* as reorder, leaving every rule the position it had
reorder_keep_positions(d) ==
    [d EXCEPT !.firewall_policy_id =
                  [r \in RuleIds |->
                      IF \E p \in PolicyIds : r \in Range(d.firewall_rules[p])
                      THEN CHOOSE p \in PolicyIds : r \in Range(d.firewall_rules[p])
                      ELSE None]]

\* the rule rows after the lists changed: each member's policy and its
\* position in the list, counted from 1; no policy and no position otherwise
reorder(d) ==
    [d EXCEPT !.firewall_policy_id =
                  [r \in RuleIds |->
                      IF \E p \in PolicyIds : r \in Range(d.firewall_rules[p])
                      THEN CHOOSE p \in PolicyIds : r \in Range(d.firewall_rules[p])
                      ELSE None],
              !.position =
                  [r \in RuleIds |->
                      IF \E p \in PolicyIds : r \in Range(d.firewall_rules[p])
                      THEN LET p == CHOOSE q \in PolicyIds : r \in Range(d.firewall_rules[q])
                           IN  IndexOf(d.firewall_rules[p], r)
                      ELSE 0]]

\* as set_rules, leaving the rules in the policies they were in
set_rules_no_detach(d, id, rules) ==
    [d EXCEPT !.firewall_rules[id] = rules,
              !.audited[id] = FALSE]

\* the rule list of policy id becomes rules: the rules it takes leave the
\* policy they were in, and every policy whose list changes is no longer
\* audited
set_rules(d, id, rules) ==
    LET lists == [p \in PolicyIds |->
                     IF p = id THEN rules
                     ELSE SelectSeq(d.firewall_rules[p], LAMBDA r : r \notin Range(rules))]
    IN  [d EXCEPT !.firewall_rules = lists,
                  !.audited = [p \in PolicyIds |->
                                  IF p = id \/ lists[p] # d.firewall_rules[p]
                                  THEN FALSE ELSE d.audited[p]]]

Response(d, status) == [db |-> d, status |-> status]

\* as insert_position, with insert_after taking precedence
insert_position_after_first(rules, insert_before, insert_after) ==
    IF insert_after # None THEN IndexOf(rules, insert_after) + 1
    ELSE IF insert_before # None THEN IndexOf(rules, insert_before)
    ELSE 1

\* as insert_position, with the tail of the list as the default
insert_position_default_last(rules, insert_before, insert_after) ==
    IF insert_before # None THEN IndexOf(rules, insert_before)
    ELSE IF insert_after # None THEN IndexOf(rules, insert_after) + 1
    ELSE Len(rules) + 1

\* as insert_position, with insert_after alone putting the rule at the tail
insert_position_after_at_tail(rules, insert_before, insert_after) ==
    IF insert_before # None THEN IndexOf(rules, insert_before)
    ELSE IF insert_after # None THEN Len(rules) + 1
    ELSE 1

\* where the rule goes: ahead of insert_before if given, else behind
\* insert_after if given, else at the head
insert_position(rules, insert_before, insert_after) ==
    IF insert_before # None THEN IndexOf(rules, insert_before)
    ELSE IF insert_after # None THEN IndexOf(rules, insert_after) + 1
    ELSE 1

\* the anchors given are members of the policy
anchors_ok(rules, insert_before, insert_after) ==
    /\ insert_before # None => insert_before \in Range(rules)
    /\ insert_after # None => insert_after \in Range(rules)

\* POST firewall_policies
create_firewall_policy(d, id, rules, audited) ==
    IF ~(Range(rules) \subseteq RuleIds) THEN Response(d, "NotFound")
    ELSE LET d1 == set_rules([d EXCEPT !.exists[id] = TRUE], id, rules)
         IN  Response(reorder([d1 EXCEPT !.audited[id] = convert_to_boolean(audited)]), "ok")

\* as update_firewall_policy, keeping the audited flag when none is given
update_firewall_policy_keep_audited(d, id, rules, audited) ==
    IF id \notin PolicyIds \/ ~d.exists[id] THEN Response(d, "NotFound")
    ELSE IF rules # UnsetList /\ ~(Range(rules) \subseteq RuleIds) THEN Response(d, "NotFound")
    ELSE LET d1 == IF rules # UnsetList THEN set_rules(d, id, rules) ELSE d
         IN  Response(reorder([d1 EXCEPT !.audited[id] =
                                   IF audited # Unset THEN convert_to_boolean(audited) ELSE d.audited[id]]), "ok")

\* PUT firewall_policies/id: the list is replaced when one is given; the
\* policy is audited afterwards only when the body says so
update_firewall_policy(d, id, rules, audited) ==
    IF id \notin PolicyIds \/ ~d.exists[id] THEN Response(d, "NotFound")
    ELSE IF rules # UnsetList /\ ~(Range(rules) \subseteq RuleIds) THEN Response(d, "NotFound")
    ELSE LET d1 == IF rules # UnsetList THEN set_rules(d, id, rules) ELSE d
         IN  Response(reorder([d1 EXCEPT !.audited[id] =
                                   IF audited # Unset THEN convert_to_boolean(audited) ELSE FALSE]), "ok")

\* as insert_rule, taking an anchor that is not in the policy as not given
insert_rule_unchecked_anchors(d, id, firewall_rule_id, insert_before, insert_after) ==
    IF id \notin PolicyIds \/ ~d.exists[id] THEN Response(d, "NotFound")
    ELSE IF firewall_rule_id \notin RuleIds THEN Response(d, "NotFound")
    ELSE IF firewall_rule_id \in Range(d.firewall_rules[id]) THEN Response(d, "Conflict")
    ELSE LET rules == d.firewall_rules[id]
             position == insert_position(
                             rules,
                             IF insert_before \in Range(rules) THEN insert_before ELSE None,
                             IF insert_after \in Range(rules) THEN insert_after ELSE None)
         IN  Response(reorder(set_rules(d, id, InsertAt(rules, position, firewall_rule_id))),
                      "ok")

\* as insert_rule, taking a rule that is in the policy already
insert_rule_again(d, id, firewall_rule_id, insert_before, insert_after) ==
    IF id \notin PolicyIds \/ ~d.exists[id] THEN Response(d, "NotFound")
    ELSE IF firewall_rule_id \notin RuleIds THEN Response(d, "NotFound")
    ELSE IF ~anchors_ok(d.firewall_rules[id], insert_before, insert_after)
    THEN Response(d, "BadRequest")
    ELSE LET rules == d.firewall_rules[id]
             position == insert_position(rules, insert_before, insert_after)
         IN  Response(reorder(set_rules(d, id, InsertAt(rules, position, firewall_rule_id))),
                      "ok")

\* PUT firewall_policies/id/insert_rule
insert_rule(d, id, firewall_rule_id, insert_before, insert_after) ==
    IF id \notin PolicyIds \/ ~d.exists[id] THEN Response(d, "NotFound")
    ELSE IF firewall_rule_id \notin RuleIds THEN Response(d, "NotFound")
    ELSE IF firewall_rule_id \in Range(d.firewall_rules[id]) THEN Response(d, "Conflict")
    ELSE IF ~anchors_ok(d.firewall_rules[id], insert_before, insert_after)
    THEN Response(d, "BadRequest")
    ELSE LET rules == d.firewall_rules[id]
             position == insert_position(rules, insert_before, insert_after)
         IN  Response(reorder(set_rules(d, id, InsertAt(rules, position, firewall_rule_id))),
                      "ok")

\* as remove_rule, leaving the rule rows as they were
remove_rule_no_reorder(d, id, firewall_rule_id) ==
    IF id \notin PolicyIds \/ ~d.exists[id] THEN Response(d, "NotFound")
    ELSE IF firewall_rule_id \notin RuleIds THEN Response(d, "NotFound")
    ELSE IF firewall_rule_id \notin Range(d.firewall_rules[id]) THEN Response(d, "BadRequest")
    ELSE Response(set_rules(d, id, Without(d.firewall_rules[id], firewall_rule_id)), "ok")

\* PUT firewall_policies/id/remove_rule
remove_rule(d, id, firewall_rule_id) ==
    IF id \notin PolicyIds \/ ~d.exists[id] THEN Response(d, "NotFound")
    ELSE IF firewall_rule_id \notin RuleIds THEN Response(d, "NotFound")
    ELSE IF firewall_rule_id \notin Range(d.firewall_rules[id]) THEN Response(d, "BadRequest")
    ELSE Response(reorder(set_rules(d, id, Without(d.firewall_rules[id], firewall_rule_id))),
                  "ok")

(***************************************************************************)
(* State machine.                                                          *)
(***************************************************************************)
NewManager ==
    LET t == [v \in {IPV4, IPV6} |-> EmptyTable]
    IN  [mem |-> t, kernel |-> t]

Outcome(w) == IF w.raised = None THEN "ok" ELSE w.raised

\* no helper called on its own yet
NoProbe == [fn |-> None, arg |-> <<>>, ret |-> <<>>, done |-> FALSE]

\* the plugin's row of the firewall group (none yet), the messages on their
\* way to the agent, the message the agent handled last with the outcome of
\* its driver calls, the driver methods it called and the statuses it
\* reported, and the response to the last request
NoCtl ==
    [fwg |-> [exists |-> FALSE, status |-> None, ports |-> {}, policy |-> FALSE,
              admin_state_up |-> FALSE],
     rpc |-> <<>>,
     handled |-> [op |-> None, admin_state_up |-> FALSE, add_port_ids |-> {},
                  del_port_ids |-> {}, last_port |-> FALSE],
     driver_ok |-> TRUE, driver |-> <<>>, reported |-> <<>>,
     response |-> [op |-> "init", code |-> "ok", ports |-> {}]]

\* no call of the driver in progress on another thread
ThreadIds == {"a", "b"}

NoThread ==
    [op |-> None, firewall |-> Firewall(None, FALSE, <<>>, <<>>), apply_list |-> <<>>,
     pc |-> 0, events |-> <<>>, outcome |-> None]

NoThreads == [t \in ThreadIds |-> NoThread]

\* IptablesFwaasDriver.__init__, on tables no firewall was applied to
InitDriver ==
    /\ agent_mode \in AgentModes
    /\ pre_firewall = <<>>
    /\ ipt = [ns \in Namespaces |-> NewManager]
    /\ last = [op |-> "init", firewall |-> Firewall(None, FALSE, <<>>, <<>>),
               apply_list |-> <<>>, pre |-> <<>>, outcome |-> "ok", fault |-> NoFault]
    /\ events = <<>>
    /\ nops = 0
    /\ db = InitDb
    /\ call = NoCall
    /\ threads = NoThreads
    /\ ctl = NoCtl

Init == InitDriver /\ probe = NoProbe

\* the state a call leaves: r.w the world, r.pre the new self.pre_firewall
Finish(op, r, firewall, apply_list) ==
    /\ pre_firewall' = r.pre
    /\ ipt' = r.w.ipt
    /\ events' = r.w.events
    /\ last' = [op |-> op, firewall |-> firewall, apply_list |-> apply_list,
                pre |-> pre_firewall, outcome |-> Outcome(r.w), fault |-> r.w.fault]
    /\ nops' = nops + 1
    /\ UNCHANGED <<agent_mode, probe, db, call, threads, ctl>>

CreateFirewallGroup(FWs, Fs) ==
    /\ nops < MaxOps
    /\ \E firewall \in FWs, fault \in Fs :
         \E apply_list \in ApplyLists(firewall.id) :
         \E routers_list \in RoutersLists(apply_list) :
           \E r \in {create_firewall_group(World(ipt, fault), agent_mode, apply_list,
                                           routers_list, firewall, pre_firewall)} :
             Finish("create", r, firewall, apply_list)

UpdateFirewallGroup(FWs, Fs) ==
    /\ nops < MaxOps
    /\ \E firewall \in FWs, fault \in Fs :
         \E apply_list \in ApplyLists(firewall.id) :
         \E routers_list \in RoutersLists(apply_list) :
           \E r \in {update_firewall_group(World(ipt, fault), agent_mode, apply_list,
                                           routers_list, firewall, pre_firewall)} :
             Finish("update", r, firewall, apply_list)

DeleteFirewallGroup(FWs, Fs) ==
    /\ nops < MaxOps
    /\ \E firewall \in FWs, fault \in Fs :
         \E apply_list \in ApplyLists(firewall.id) :
         \E r \in {delete_firewall_group(World(ipt, fault), agent_mode, apply_list,
                                         firewall, pre_firewall)} :
           Finish("delete", r, firewall, apply_list)

ApplyDefaultPolicy(FWs, Fs) ==
    /\ nops < MaxOps
    /\ \E firewall \in FWs, fault \in Fs :
         \E apply_list \in ApplyLists(firewall.id) :
         \E r \in {[w |-> apply_default_policy(World(ipt, fault), agent_mode,
                                               apply_list, firewall),
                    pre |-> pre_firewall]} :
           Finish("apply_default_policy", r, firewall, apply_list)

Next ==
    \/ CreateFirewallGroup(Firewalls, {NoFault})
    \/ UpdateFirewallGroup(Firewalls, {NoFault})
    \/ DeleteFirewallGroup(OnePerId(Firewalls), {NoFault})
    \/ ApplyDefaultPolicy(Firewalls, {NoFault})

Spec == Init /\ [][Next]_vars

(***************************************************************************)
(* The driver in an environment that fails: one commit of a call raises,   *)
(* or one conntrack command of a call exits with a non-zero status.        *)
(* "Exception" stands for any exception that is neither a LookupError nor  *)
(* a RuntimeError.                                                         *)
(***************************************************************************)
CommitFault(at, kind) == [site |-> "commit", at |-> at, kind |-> kind, code |-> 0]

ExecuteFault(at, code) == [site |-> "execute", at |-> at, kind |-> None, code |-> code]

Faults ==
    {NoFault,
     CommitFault(1, "RuntimeError"), CommitFault(2, "LookupError"),
     CommitFault(1, "Exception"),
     ExecuteFault(1, 1), ExecuteFault(2, 2)}

\* the firewalls passed while the environment fails
FaultFirewalls ==
    {Firewall(FW3, up, <<RA, RB>>, <<RC, RA>>) : up \in BOOLEAN}
        \cup {Firewall(FW3, TRUE, <<RA2, RB>>, <<RC, RB>>)}

NextFault ==
    \/ CreateFirewallGroup(FaultFirewalls, Faults)
    \/ UpdateFirewallGroup(FaultFirewalls, Faults)
    \/ DeleteFirewallGroup(OnePerId(FaultFirewalls), Faults)
    \/ ApplyDefaultPolicy(FaultFirewalls, Faults)

SpecFault == Init /\ [][NextFault]_vars

(***************************************************************************)
(* The helpers that compute a value and change nothing, each called on its *)
(* own: probe.arg is drawn when the driver is built, the call fills        *)
(* probe.ret.                                                              *)
(***************************************************************************)
MaxFip == 2

\* cfg.CONF.agent_mode
AgentModesAll == AgentModes \cup {"legacy"}

\* RouterInfo objects as the L3 agent can hand them to the driver
RouterInfos ==
    {[id |-> "R", distributed |-> d, snat_iptables_manager |-> s, dist_fip_count |-> n] :
        d \in BOOLEAN, s \in {None, "snat-R"}, n \in 0..MaxFip}

\* firewall rules: every action, with and without each match field
ProbeRules ==
    {Rule("r", TRUE, a, p, 4, src, dst, sport, dport) :
        a \in {"allow", "deny", "reject"}, p \in {None, "tcp", "udp", "icmp"},
        src \in {None, "10.0.0.0/24"}, dst \in {None, "10.0.1.0/24"},
        sport \in {None, "1024"}, dport \in {None, "80"}}

\* a group whose id starts as the id of FW1 does
FW4 == "11111111-d"

\* (firewall-group id, IP version, direction)
Triples ==
    {[fwid |-> f, ver |-> v, direction |-> d] :
        f \in {FW1, FW2, FW3, FW4}, v \in {IPV4, IPV6},
        d \in {INGRESS_DIRECTION, EGRESS_DIRECTION}}

\* port ids that start as P1 does, for 11 and for 10 characters
P8 == "1a2b3c4d-5e7a"
P9 == "1a2b3c4d-5f00"

ProbePorts == {P1, P2, P8, P9}

IfPrefixes == {INTERNAL_DEV_PREFIX, SNAT_INT_DEV_PREFIX, ROUTER_2_FIP_DEV_PREFIX}

\* firewall rules with each key of the conntrack filter set and not set (an
\* ip_version of 0 stands for one that is not set), and with the fields
\* that are no key differing
ConntrackRules ==
    {Rule("r", en, a, p, v, src, None, sport, dport) :
        en \in BOOLEAN, a \in {"allow", "deny"}, p \in {None, "tcp"}, v \in {0, 4, 6},
        src \in {None, "10.0.0.0/24"}, sport \in {None, "1024"}, dport \in {None, "80"}}

ProbeCall(fn, arg) == [fn |-> fn, arg |-> arg, ret |-> <<>>, done |-> FALSE]

InitPure ==
    /\ InitDriver
    /\ \/ \E mode \in AgentModesAll, ri \in RouterInfos :
              probe = ProbeCall("_get_ipt_mgrs_with_if_prefix", [mode |-> mode, ri |-> ri])
       \/ \E rule \in ProbeRules :
              probe = ProbeCall("_convert_fwaas_to_iptables_rule", rule)
       \/ \E t1 \in Triples : \E t2 \in Triples \ {t1} :
              probe = ProbeCall("_get_chain_name", <<t1, t2>>)
       \/ \E if_prefix \in IfPrefixes : \E pa \in ProbePorts : \E pb \in ProbePorts \ {pa} :
              probe = ProbeCall("_enable_policy_chain",
                                [if_prefix |-> if_prefix, router_fw_ports |-> <<pa, pb>>])
       \/ \E ra \in ConntrackRules, rb \in ConntrackRules :
              probe = ProbeCall("_get_conntrack_cmd_from_rule",
                                [ipt_mgr |-> iptables_manager(R1), rules |-> <<ra, rb>>])

Return(fn, ret) ==
    /\ probe.fn = fn /\ ~probe.done
    /\ probe' = [probe EXCEPT !.ret = ret, !.done = TRUE]
    /\ UNCHANGED <<agent_mode, pre_firewall, ipt, last, events, nops, db, call,
                   threads, ctl>>

GetIptMgrsWithIfPrefix ==
    /\ probe.fn = "_get_ipt_mgrs_with_if_prefix"
    /\ Return("_get_ipt_mgrs_with_if_prefix",
              _get_ipt_mgrs_with_if_prefix(probe.arg.mode, probe.arg.ri))

ConvertFwaasToIptablesRule ==
    /\ probe.fn = "_convert_fwaas_to_iptables_rule"
    /\ Return("_convert_fwaas_to_iptables_rule",
              _convert_fwaas_to_iptables_rule(probe.arg))

\* the name under which the chain of a triple is created (_setup_chains:
\* table.add_chain), looked up and jumped into (_enable_policy_chain)
ChainNames(t) ==
    LET chain_name == _get_chain_name(t.fwid, t.ver, t.direction)
        looked_up == get_chain_name(chain_name)
    IN  [created |-> add_chain(EmptyTable, chain_name).chains \ EmptyTable.chains,
         looked_up |-> looked_up,
         jump |-> binary_name \o "-" \o looked_up]

GetChainName ==
    /\ probe.fn = "_get_chain_name"
    /\ Return("_get_chain_name", <<ChainNames(probe.arg[1]), ChainNames(probe.arg[2])>>)

\* the FORWARD rules (IPv4) that _enable_policy_chain leaves on a new table
\* of R1 when firewall group FW1 is set up there
ForwardRules(if_prefix, router_fw_ports) ==
    LET ipt_if_prefix == [ipt |-> iptables_manager(R1), if_prefix |-> if_prefix]
        w == _setup_firewall_target(World(ipt, NoFault),
                                    Firewall(FW1, TRUE, <<RA>>, <<RC>>),
                                    ipt_if_prefix, router_fw_ports)
        rs == SelectSeq(w.ipt[iptables_manager(R1)].kernel[IPV4].rules,
                        LAMBDA r : r.chain = "FORWARD")
    IN  [i \in 1..Len(rs) |-> rs[i].rule]

EnablePolicyChain ==
    /\ probe.fn = "_enable_policy_chain"
    /\ Return("_enable_policy_chain",
              ForwardRules(probe.arg.if_prefix, probe.arg.router_fw_ports))

GetConntrackCmdFromRule ==
    /\ probe.fn = "_get_conntrack_cmd_from_rule"
    /\ Return("_get_conntrack_cmd_from_rule",
              [i \in 1..2 |->
                  _get_conntrack_cmd_from_rule(probe.arg.ipt_mgr, <<probe.arg.rules[i]>>)])

NextPure ==
    \/ GetIptMgrsWithIfPrefix
    \/ ConvertFwaasToIptablesRule
    \/ GetChainName
    \/ EnablePolicyChain
    \/ GetConntrackCmdFromRule

SpecPure == InitPure /\ [][NextPure]_vars

(***************************************************************************)
(* The policy store under the requests of the REST surface.                *)
(***************************************************************************)
MaxListLen == 2

\* firewall_rules of a request: rules in any order without repetition, and
\* a list naming a rule that does not exist
RuleIdLists ==
    {l \in UNION {[1..n -> RuleIds] : n \in 0..Min(MaxListLen, Cardinality(RuleIds))} :
        \A i, j \in 1..Len(l) : i # j => l[i] # l[j]}
        \cup {<<"fwr0", NoSuchId>>}

\* what is kept of a request: all of it but the rule list of a create or update
Request(op, id, firewall_rule_id, insert_before, insert_after, audited) ==
    [op |-> op, id |-> id, firewall_rule_id |-> firewall_rule_id,
     insert_before |-> insert_before, insert_after |-> insert_after,
     audited |-> audited, status |-> "ok"]

\* the response r to the request c
Respond(c, r) ==
    /\ db' = r.db
    /\ call' = [c EXCEPT !.status = r.status]
    /\ UNCHANGED <<agent_mode, pre_firewall, ipt, last, events, nops, probe,
                   threads, ctl>>

CreateFirewallPolicy ==
    \E id \in PolicyIds, rules \in RuleIdLists, audited \in {"True", "False"} :
        /\ ~db.exists[id]
        /\ Respond(Request("create_firewall_policy", id, None, None, None, audited),
                   create_firewall_policy(db, id, rules, audited))

UpdateFirewallPolicy ==
    \/ \E id \in PolicyIds, rules \in RuleIdLists \cup {UnsetList},
          audited \in {Unset, "True", "False"} :
           Respond(Request("update_firewall_policy", id, None, None, None, audited),
                   update_firewall_policy(db, id, rules, audited))
    \/ Respond(Request("update_firewall_policy", NoSuchId, None, None, None, Unset),
               update_firewall_policy(db, NoSuchId, UnsetList, Unset))

InsertRule ==
    \/ \E id \in PolicyIds, firewall_rule_id \in RuleIds :
       \E insert_before \in RuleIds \cup {None} :
       \E insert_after \in (RuleIds \ {firewall_rule_id}) \cup {None} :
           Respond(Request("insert_rule", id, firewall_rule_id, insert_before, insert_after,
                           Unset),
                   insert_rule(db, id, firewall_rule_id, insert_before, insert_after))
    \/ \E ids \in {<<"fwp0", NoSuchId, None>>, <<NoSuchId, "fwr0", None>>,
                    <<"fwp0", None, NoSuchId>>} :
           Respond(Request("insert_rule", ids[1], ids[2], ids[3], ids[3], Unset),
                   insert_rule(db, ids[1], ids[2], ids[3], ids[3]))

RemoveRule ==
    \E id \in PolicyIds \cup {NoSuchId}, firewall_rule_id \in RuleIds \cup {NoSuchId} :
        Respond(Request("remove_rule", id, firewall_rule_id, None, None, Unset),
                remove_rule(db, id, firewall_rule_id))

NextPolicy ==
    \/ CreateFirewallPolicy
    \/ UpdateFirewallPolicy
    \/ InsertRule
    \/ RemoveRule

InitPolicy == Init /\ agent_mode = "dvr"

SpecPolicy == InitPolicy /\ [][NextPolicy]_vars

(***************************************************************************)
(* Two calls of one driver object in progress at once, each on its own     *)
(* router.  A call gives up the processor only inside its blocking calls    *)
(* (the conntrack commands and the iptables commit of defer_apply_off), so   *)
(* each call is cut where it switches from flushing to committing: the      *)
(* statements of one part run without the other call in between.  self.     *)
(* pre_firewall is read when the flush part starts (lines 134-136) and      *)
(* written when the call ends (lines 76, 123, 143).                         *)
(***************************************************************************)
\* the number of parts of a call
Steps(op, firewall) ==
    IF op \in {"create", "update"} /\ firewall.admin_state_up THEN 2 ELSE 1

\* part k of a call, on the world and the self.pre_firewall it finds
step(op, k, w, mode, apply_list, routers_list, firewall, pre) ==
    IF Steps(op, firewall) = 1
    THEN IF op = "create"
         THEN create_firewall_group(w, mode, apply_list, routers_list, firewall, pre)
         ELSE IF op = "update"
         THEN update_firewall_group(w, mode, apply_list, routers_list, firewall, pre)
         ELSE delete_firewall_group(w, mode, apply_list, firewall, pre)
    ELSE IF op = "update"
    THEN IF k = 1
         THEN [w |-> Except(IF pre # <<>>
                            THEN _remove_conntrack_updated_firewall(
                                     w, mode, routers_list, pre[1], firewall)
                            ELSE _remove_conntrack_new_firewall(
                                     w, mode, routers_list, firewall)),
               pre |-> pre]
         ELSE LET w2 == _setup_firewall(w, mode, apply_list, firewall)
              IN  [w |-> Except(w2),
                   pre |-> IF w2.raised = None THEN <<firewall>> ELSE pre]
    ELSE IF k = 1
         THEN [w |-> Except(_setup_firewall(w, mode, apply_list, firewall)),
               pre |-> pre]
         ELSE LET w2 == _remove_conntrack_new_firewall(w, mode, routers_list, firewall)
              IN  [w |-> Except(w2),
                   pre |-> IF w2.raised = None THEN <<firewall>> ELSE pre]

\* the calls of the two threads: thread a on router R1, thread b on router R2
ThreadCalls(t) ==
    LET fwid == IF t = "a" THEN FW1 ELSE FW3
        apply_list == IF t = "a" THEN <<<<R1, <<P1>>>>>> ELSE <<<<R2, <<P7>>>>>>
        cs == {c \in RuleConfigs : c[1][1] # RA2}
    IN  {[NoThread EXCEPT !.op = op, !.firewall = Firewall(fwid, up, c[1], c[2]),
                          !.apply_list = apply_list] :
            op \in {"create", "update"}, up \in BOOLEAN, c \in cs}
        \cup {[NoThread EXCEPT !.op = "delete",
                               !.firewall = Firewall(fwid, TRUE, <<>>, <<>>),
                               !.apply_list = apply_list]}

TheRoutersList(apply_list) == CHOOSE l \in RoutersLists(apply_list) : TRUE

InitConc ==
    /\ agent_mode \in AgentModes
    /\ pre_firewall = <<>>
    /\ ipt = [ns \in Namespaces |-> NewManager]
    /\ last = [op |-> "init", firewall |-> Firewall(None, FALSE, <<>>, <<>>),
               apply_list |-> <<>>, pre |-> <<>>, outcome |-> "ok", fault |-> NoFault]
    /\ events = <<>>
    /\ nops = 0
    /\ db = InitDb
    /\ call = NoCall
    /\ probe = NoProbe
    /\ threads \in [ThreadIds -> UNION {ThreadCalls(t) : t \in ThreadIds}]
    /\ \A t \in ThreadIds : threads[t] \in ThreadCalls(t)
    /\ ctl = NoCtl

\* thread t runs the next part of its call
Step(t) ==
    /\ threads[t].pc < Steps(threads[t].op, threads[t].firewall)
    /\ threads[t].outcome \in {None, "ok"}
    /\ LET c == threads[t]
           r == step(c.op, c.pc + 1, World(ipt, NoFault), agent_mode, c.apply_list,
                     TheRoutersList(c.apply_list), c.firewall, pre_firewall)
       IN  /\ ipt' = r.w.ipt
           /\ pre_firewall' = r.pre
           /\ events' = events \o r.w.events
           /\ threads' = [threads EXCEPT ![t] =
                             [c EXCEPT !.pc = c.pc + 1,
                                       !.events = c.events \o r.w.events,
                                       !.outcome = Outcome(r.w)]]
    /\ UNCHANGED <<agent_mode, last, nops, probe, db, call, ctl>>

NextConc ==
    \/ Step("a")
    \/ Step("b")

SpecConc == InitConc /\ [][NextConc]_vars

(***************************************************************************)
(* The firewall-group plugin and the L3 agent extension around the driver. *)
(* The plugin keeps the row of one firewall group and answers the REST     *)
(* requests; a group that is to be applied is left in a pending status and *)
(* a message goes to the agent, which calls the driver and reports the     *)
(* status the group is to have.                                            *)
(***************************************************************************)
PENDING_CREATE == "PENDING_CREATE"
PENDING_UPDATE == "PENDING_UPDATE"
PENDING_DELETE == "PENDING_DELETE"
ACTIVE == "ACTIVE"
DOWN == "DOWN"
INACTIVE == "INACTIVE"
ERROR == "ERROR"

PendingStatuses == {PENDING_CREATE, PENDING_UPDATE, PENDING_DELETE}

\* router ports a firewall group can be attached to
GroupPorts == {"port_id1", "port_id2", "port_id3"}

\* the message about a firewall group that the plugin sends to the agent
Message(op, admin_state_up, add_port_ids, del_port_ids, last_port) ==
    [op |-> op, admin_state_up |-> admin_state_up, add_port_ids |-> add_port_ids,
     del_port_ids |-> del_port_ids, last_port |-> last_port]

\* what a handler of the agent did: the driver methods it called and the
\* statuses it reported, in order; deleted when it reported the group
\* deleted
Handled(driver, reported, deleted) ==
    [driver |-> driver, reported |-> reported, deleted |-> deleted]

\* L3WithFWaaS.create_firewall_group, for a group with ports to apply;
\* driver_ok: the driver call returned (it did not raise
\* FirewallInternalDriverError)
agent_create_firewall_group(msg, driver_ok) ==
    Handled(<<"create_firewall_group">>,
            <<IF driver_ok THEN ACTIVE ELSE ERROR>>, FALSE)

\* as agent_update_firewall_group, reporting an update that neither adds nor
\* deletes a port as ACTIVE
agent_update_firewall_group_always_active(msg, driver_ok) ==
    LET deletes == msg.del_port_ids # {}
        adds == msg.add_port_ids # {} /\ ~(deletes /\ msg.last_port)
        driver == (IF deletes THEN <<"delete_firewall_group">> ELSE <<>>)
                  \o (IF adds THEN <<"update_firewall_group">> ELSE <<>>)
        status == IF ~driver_ok THEN ERROR
                  ELSE IF deletes /\ msg.last_port THEN INACTIVE
                  ELSE IF adds /\ ~msg.admin_state_up THEN DOWN
                  ELSE ACTIVE
    IN  Handled(driver, <<status>>, FALSE)

\* L3WithFWaaS.update_firewall_group: the group is deleted from the ports
\* to delete; unless that was its last port, it is updated on the ports to
\* add; one status is reported
agent_update_firewall_group(msg, driver_ok) ==
    LET deletes == msg.del_port_ids # {}
        adds == msg.add_port_ids # {} /\ ~(deletes /\ msg.last_port)
        driver == (IF deletes THEN <<"delete_firewall_group">> ELSE <<>>)
                  \o (IF adds THEN <<"update_firewall_group">> ELSE <<>>)
        status == IF ~driver_ok THEN ERROR
                  ELSE IF deletes /\ msg.last_port THEN INACTIVE
                  ELSE IF ~deletes /\ ~adds THEN INACTIVE
                  ELSE IF adds /\ ~msg.admin_state_up THEN DOWN
                  ELSE ACTIVE
    IN  Handled(driver, <<status>>, FALSE)

\* L3WithFWaaS.delete_firewall_group: reports the group deleted
agent_delete_firewall_group(msg, driver_ok) ==
    IF driver_ok
    THEN Handled(<<"delete_firewall_group">>, <<>>, TRUE)
    ELSE Handled(<<"delete_firewall_group">>, <<ERROR>>, FALSE)

\* FirewallCallbacks.set_firewall_group_status
set_firewall_group_status(fwg, status) == [fwg EXCEPT !.status = status]

\* the row and the message of a POST firewall_groups
plugin_create_firewall_group(ports, policy, admin_state_up) ==
    LET status == IF ports # {} /\ policy THEN PENDING_CREATE ELSE INACTIVE
    IN  [fwg |-> [exists |-> TRUE, status |-> status, ports |-> ports,
                  policy |-> policy, admin_state_up |-> admin_state_up],
         rpc |-> IF status = PENDING_CREATE
                 THEN <<Message("create", admin_state_up, ports, {}, FALSE)>>
                 ELSE <<>>,
         code |-> "ok"]

\* as plugin_update_firewall_group, taking the update whatever the status
plugin_update_firewall_group_any_status(fwg, ports, admin_state_up) ==
    LET status == IF fwg.policy /\ (ports # {} \/ fwg.ports # {})
                  THEN PENDING_UPDATE ELSE INACTIVE
    IN  [fwg |-> [fwg EXCEPT !.status = status, !.ports = ports,
                             !.admin_state_up = admin_state_up],
         rpc |-> IF status = PENDING_UPDATE
                 THEN <<Message("update", admin_state_up, ports \ fwg.ports,
                                fwg.ports \ ports, ports = {})>>
                 ELSE <<>>,
         code |-> "ok"]

\* the row and the message of a PUT firewall_groups/id that sets the ports
\* and admin_state_up: refused while the group is in a pending status
plugin_update_firewall_group(fwg, ports, admin_state_up) ==
    IF fwg.status \in PendingStatuses
    THEN [fwg |-> fwg, rpc |-> <<>>, code |-> "Conflict"]
    ELSE LET status == IF fwg.policy /\ (ports # {} \/ fwg.ports # {})
                       THEN PENDING_UPDATE ELSE INACTIVE
         IN  [fwg |-> [fwg EXCEPT !.status = status, !.ports = ports,
                                  !.admin_state_up = admin_state_up],
              rpc |-> IF status = PENDING_UPDATE
                      THEN <<Message("update", admin_state_up, ports \ fwg.ports,
                                     fwg.ports \ ports, ports = {})>>
                      ELSE <<>>,
              code |-> "ok"]

\* the row and the message of a DELETE firewall_groups/id
plugin_delete_firewall_group(fwg) ==
    IF fwg.status \in PendingStatuses
    THEN [fwg |-> fwg, rpc |-> <<>>, code |-> "Conflict"]
    ELSE IF fwg.status = INACTIVE
    THEN [fwg |-> NoCtl.fwg, rpc |-> <<>>, code |-> "ok"]
    ELSE [fwg |-> [fwg EXCEPT !.status = PENDING_DELETE],
          rpc |-> <<Message("delete", fwg.admin_state_up, {}, fwg.ports, FALSE)>>,
          code |-> "ok"]

\* the plugin answers a request
Answer(op, r) ==
    /\ ctl' = [ctl EXCEPT !.fwg = r.fwg,
                          !.rpc = ctl.rpc \o r.rpc,
                          !.response = [op |-> op, code |-> r.code, ports |-> r.fwg.ports]]
    /\ UNCHANGED <<agent_mode, pre_firewall, ipt, last, events, nops, probe, db, call,
                   threads>>

PluginCreateFirewallGroup ==
    /\ ~ctl.fwg.exists
    /\ \E ports \in SUBSET GroupPorts, policy \in BOOLEAN, admin_state_up \in BOOLEAN :
           Answer("create", plugin_create_firewall_group(ports, policy, admin_state_up))

PluginUpdateFirewallGroup ==
    /\ ctl.fwg.exists
    /\ \E ports \in SUBSET GroupPorts, admin_state_up \in BOOLEAN :
           Answer("update", plugin_update_firewall_group(ctl.fwg, ports, admin_state_up))

PluginDeleteFirewallGroup ==
    /\ ctl.fwg.exists
    /\ Answer("delete", plugin_delete_firewall_group(ctl.fwg))

\* the agent takes the next message, calls the driver and reports
AgentHandles ==
    /\ ctl.rpc # <<>>
    /\ \E driver_ok \in BOOLEAN :
           LET msg == Head(ctl.rpc)
               h == IF msg.op = "create" THEN agent_create_firewall_group(msg, driver_ok)
                    ELSE IF msg.op = "update"
                    THEN agent_update_firewall_group(msg, driver_ok)
                    ELSE agent_delete_firewall_group(msg, driver_ok)
               fwg == IF h.deleted THEN NoCtl.fwg
                      ELSE IF h.reported # <<>>
                      THEN set_firewall_group_status(ctl.fwg, h.reported[Len(h.reported)])
                      ELSE ctl.fwg
           IN  ctl' = [ctl EXCEPT !.fwg = fwg, !.rpc = Tail(ctl.rpc),
                                  !.handled = msg, !.driver_ok = driver_ok,
                                  !.driver = h.driver, !.reported = h.reported]
    /\ UNCHANGED <<agent_mode, pre_firewall, ipt, last, events, nops, probe, db, call,
                   threads>>

NextCtl ==
    \/ PluginCreateFirewallGroup
    \/ PluginUpdateFirewallGroup
    \/ PluginDeleteFirewallGroup
    \/ AgentHandles

SpecCtl == InitPolicy /\ [][NextCtl]_vars

(***************************************************************************)
(* Calls for groups that share a target, one of them with an id that       *)
(* starts as the id of FW1 does.                                           *)
(***************************************************************************)
GroupFirewalls ==
    Firewalls \cup {Firewall(FW4, up, <<RB>>, <<RC>>) : up \in BOOLEAN}

NextGroups ==
    \/ CreateFirewallGroup(GroupFirewalls, {NoFault})
    \/ UpdateFirewallGroup(GroupFirewalls, {NoFault})
    \/ DeleteFirewallGroup(OnePerId(GroupFirewalls), {NoFault})
    \/ ApplyDefaultPolicy(GroupFirewalls, {NoFault})

SpecGroups == Init /\ [][NextGroups]_vars

(***************************************************************************)
(* Calls for a group whose routers are distributed and have no floating    *)
(* ip: R3 has no SNAT context, R4 has one, which counts on the SNAT host   *)
(* only.  A group on R1 is called too, and commits and commands may fail.  *)
(***************************************************************************)
NoTargetFirewalls ==
    {Firewall(FW5, up, <<RA, RB>>, <<RC>>) : up \in BOOLEAN}
        \cup {Firewall(FW5, TRUE, <<RA2>>, <<RC, RB>>), Firewall(FW2, TRUE, <<RB>>, <<>>)}

NoTargetFaults == {NoFault, CommitFault(1, "RuntimeError"), ExecuteFault(1, 2)}

NextNoTarget ==
    \/ CreateFirewallGroup(NoTargetFirewalls, NoTargetFaults)
    \/ UpdateFirewallGroup(NoTargetFirewalls, NoTargetFaults)
    \/ DeleteFirewallGroup(OnePerId(NoTargetFirewalls), NoTargetFaults)
    \/ ApplyDefaultPolicy(NoTargetFirewalls, NoTargetFaults)

SpecNoTarget == Init /\ [][NextNoTarget]_vars

(***************************************************************************)
(* Vocabulary of the properties.                                           *)
(***************************************************************************)
Directions == {INGRESS_DIRECTION, EGRESS_DIRECTION}
Versions == {IPV4, IPV6}

\* the last call was one of ops and returned normally
Succeeded(ops) == last.op \in ops /\ last.outcome = "ok"

\* the filter contexts an apply list resolves to, each with the interface
\* prefix and the ports of its entry
ResolvedTargets(mode, apply_list) ==
    UNION {{[ipt |-> t.ipt, if_prefix |-> t.if_prefix, ports |-> apply_list[i][2]] :
               t \in Range(_get_ipt_mgrs_with_if_prefix(mode, apply_list[i][1]))} :
           i \in 1..Len(apply_list)}

LastTargets == ResolvedTargets(agent_mode, last.apply_list)

\* the committed filter table of a target for a version
Committed(t, v) == ipt[t.ipt].kernel[v]

\* the rules of a chain, in order
ChainContent(tbl, name) ==
    LET rs == SelectSeq(tbl.rules, LAMBDA r : r.chain = name)
    IN  [i \in 1..Len(rs) |-> rs[i].rule]

\* the name a table knows the chain of (fwid, v, d) by
GroupChain(fwid, v, d) == get_chain_name(_get_chain_name(fwid, v, d))

DefaultChain == get_chain_name(FWAAS_DEFAULT_CHAIN)

RuleList(fw, d) ==
    IF d = INGRESS_DIRECTION THEN fw.ingress_rule_list ELSE fw.egress_rule_list

VerNum(v) == IF v = IPV4 THEN 4 ELSE 6

\* the text of a FORWARD rule that sends the traffic of one side (flag) of
\* an interface to a chain
JumpRule(flag, intf, chain) ==
    flag \o " " \o intf \o " -j " \o binary_name \o "-" \o chain

StartsWith(s, p) == Len(s) >= Len(p) /\ SubSeq(s, 1, Len(p)) = p

EndsWith(s, p) == Len(s) >= Len(p) /\ SubSeq(s, Len(s) - Len(p) + 1, Len(s)) = p

\* rule text r matches on interface intf (either side)
OnInterface(r, intf) ==
    \E flag \in {"-o", "-i"} : StartsWith(r, flag \o " " \o intf \o " ")

\* rule text r jumps to chain
JumpsTo(r, chain) == EndsWith(r, " -j " \o binary_name \o "-" \o chain)

Forward(t, v) == ChainContent(Committed(t, v), "FORWARD")

(***************************************************************************)
(* C1: after a successful create or update with admin_state_up, on every   *)
(* resolved target, the chain of the group for each version and direction  *)
(* holds the invalid-drop rule, the established-accept rule, then the      *)
(* translations of the enabled rules of that direction and version in list *)
(* order, and nothing else.                                                *)
(***************************************************************************)
ExpectedChain(fw, v, d) ==
    LET rs == SelectSeq(RuleList(fw, d),
                        LAMBDA r : r.enabled /\ r.ip_version = VerNum(v))
    IN  <<_drop_invalid_packets_rule, _allow_established_rule>>
            \o [i \in 1..Len(rs) |-> _convert_fwaas_to_iptables_rule(rs[i])]

C1_ChainContent ==
    (Succeeded({"create", "update"}) /\ last.firewall.admin_state_up)
        => \A t \in LastTargets, v \in Versions, d \in Directions :
              /\ GroupChain(last.firewall.id, v, d) \in Committed(t, v).chains
              /\ ChainContent(Committed(t, v), GroupChain(last.firewall.id, v, d))
                     = ExpectedChain(last.firewall, v, d)

\* an update rebuilt, on two targets, chains that held other rules before
C1_Witness ==
    /\ Succeeded({"update"}) /\ last.firewall.admin_state_up
    /\ Cardinality(LastTargets) >= 2
    /\ last.pre # <<>> /\ last.pre[1].id = last.firewall.id
    /\ last.pre[1].ingress_rule_list # last.firewall.ingress_rule_list
    /\ \E r \in Range(last.firewall.ingress_rule_list) : ~r.enabled
    /\ \E r \in Range(last.firewall.egress_rule_list) : r.ip_version = 6

(***************************************************************************)
(* C2: with admin_state_up false, after a successful create, update or     *)
(* apply_default_policy no chain of the group exists on a resolved target, *)
(* and every FORWARD rule on an interface of the group's ports jumps to    *)
(* the default chain.                                                      *)
(***************************************************************************)
C2_AdminDownClosed ==
    (Succeeded({"create", "update", "apply_default_policy"})
        /\ ~last.firewall.admin_state_up)
        => \A t \in LastTargets, v \in Versions :
              /\ \A d \in Directions :
                    GroupChain(last.firewall.id, v, d) \notin Committed(t, v).chains
              /\ \A r \in Range(Forward(t, v)) : \A p \in Range(t.ports) :
                    OnInterface(r, _get_intf_name(t.if_prefix, p))
                        => JumpsTo(r, DefaultChain)

\* the group was up with rules on the same targets before it was taken down
C2_Witness ==
    /\ Succeeded({"update"}) /\ ~last.firewall.admin_state_up
    /\ last.firewall.ingress_rule_list # <<>>
    /\ LastTargets # {}
    /\ last.pre # <<>> /\ last.pre[1].id = last.firewall.id
    /\ last.pre[1].admin_state_up
    /\ nops = 2

(***************************************************************************)
(* C3: after a successful create, update or apply_default_policy, for      *)
(* every port of the group, target and version, FORWARD holds the jump to  *)
(* the default chain for the outbound and for the inbound side of the      *)
(* port's interface, and each such jump comes after every jump into a      *)
(* chain of the group.                                                     *)
(***************************************************************************)
C3_CatchAllLast ==
    Succeeded({"create", "update", "apply_default_policy"})
        => \A t \in LastTargets, v \in Versions :
              LET fwd == Forward(t, v)
                  intfs == {_get_intf_name(t.if_prefix, p) : p \in Range(t.ports)}
                  catchall == {JumpRule(flag, i, DefaultChain) :
                                  flag \in {"-o", "-i"}, i \in intfs}
              IN  /\ catchall \subseteq Range(fwd)
                  /\ \A i, j \in 1..Len(fwd) :
                        (/\ fwd[j] \in catchall
                         /\ \E d \in Directions :
                               JumpsTo(fwd[i], GroupChain(last.firewall.id, v, d)))
                            => i < j

\* chains of the group were rebuilt for two ports
C3_Witness ==
    /\ Succeeded({"update"}) /\ last.firewall.admin_state_up
    /\ \E t \in LastTargets : Len(t.ports) = 2
    /\ \E t \in LastTargets :
          \E i \in 1..Len(Forward(t, IPV4)) :
              JumpsTo(Forward(t, IPV4)[i],
                      GroupChain(last.firewall.id, IPV4, INGRESS_DIRECTION))

(***************************************************************************)
(* C4: after a successful create or update with admin_state_up, for every  *)
(* port, target and version FORWARD holds the jump into the ingress chain  *)
(* on the outbound side of the port's interface and the jump into the      *)
(* egress chain on its inbound side, and neither of the reverse pairings.  *)
(***************************************************************************)
C4_JumpSides ==
    (Succeeded({"create", "update"}) /\ last.firewall.admin_state_up)
        => \A t \in LastTargets, v \in Versions : \A p \in Range(t.ports) :
              LET fwd == Range(Forward(t, v))
                  intf == _get_intf_name(t.if_prefix, p)
                  ichain == GroupChain(last.firewall.id, v, INGRESS_DIRECTION)
                  ochain == GroupChain(last.firewall.id, v, EGRESS_DIRECTION)
              IN  /\ JumpRule("-o", intf, ichain) \in fwd
                  /\ JumpRule("-i", intf, ochain) \in fwd
                  /\ JumpRule("-i", intf, ichain) \notin fwd
                  /\ JumpRule("-o", intf, ochain) \notin fwd

C4_Witness ==
    /\ Succeeded({"create"}) /\ last.firewall.admin_state_up
    /\ \E t \in LastTargets : t.if_prefix = ROUTER_2_FIP_DEV_PREFIX
    /\ \E t \in LastTargets : t.if_prefix = SNAT_INT_DEV_PREFIX
    /\ \E t \in LastTargets : t.if_prefix = INTERNAL_DEV_PREFIX /\ Len(t.ports) = 2

(***************************************************************************)
(* C5: after a successful delete, on every resolved target none of the     *)
(* four chains of the group nor the default chain exists, no rule jumps to *)
(* any of them, the tables in memory are the committed ones, and           *)
(* pre_firewall is None.                                                   *)
(***************************************************************************)
C5_DeleteRemoves ==
    Succeeded({"delete"})
        => /\ pre_firewall = <<>>
           /\ \A t \in LastTargets :
                 /\ ipt[t.ipt].kernel = ipt[t.ipt].mem
                 /\ \A v \in Versions :
                       LET gone == {GroupChain(last.firewall.id, v, d) : d \in Directions}
                                       \cup {DefaultChain}
                           tbl == Committed(t, v)
                       IN  /\ gone \cap tbl.chains = {}
                           /\ \A i \in 1..Len(tbl.rules), c \in gone :
                                 /\ tbl.rules[i].chain # c
                                 /\ ~JumpsTo(tbl.rules[i].rule, c)

\* the firewall deleted had been set up on the targets by the call before
C5_Witness ==
    /\ Succeeded({"delete"})
    /\ Cardinality(LastTargets) >= 2
    /\ last.pre # <<>> /\ last.pre[1].id = last.firewall.id
    /\ last.pre[1].admin_state_up
    /\ nops = 2
    /\ Len(events) >= 2

(***************************************************************************)
(* C6: the snapshot is kept per firewall group: an update of a group diffs *)
(* against a snapshot of that same group, and a successful create, update  *)
(* or delete of one group leaves the snapshot of another group as it was.  *)
(* The driver keeps one slot for all groups, so this does not hold.        *)
(***************************************************************************)
C6_SnapshotPerGroup ==
    /\ (last.op = "update" /\ last.firewall.admin_state_up /\ last.pre # <<>>)
          => last.pre[1].id = last.firewall.id
    /\ (Succeeded({"create", "update", "delete"}) /\ last.pre # <<>>
            /\ last.pre[1].id # last.firewall.id)
          => pre_firewall = last.pre

(***************************************************************************)
(* C7: an update with admin_state_up and a snapshot issues, in the         *)
(* namespace of every resolved target, one filtered conntrack delete for   *)
(* every rule changed (its old and its new version), removed or added in   *)
(* either direction, nothing else and nowhere else; none at all when the   *)
(* rule lists equal those of the snapshot.                                 *)
(***************************************************************************)
Ids(rules) == {rules[i].id : i \in 1..Len(rules)}

\* positions in rules whose rule is also in other, by id, with other content
ChangedAt(rules, other) ==
    {i \in 1..Len(rules) :
        \E j \in 1..Len(other) : other[j].id = rules[i].id /\ other[j] # rules[i]}

\* positions in rules whose rule is not in other, by id
AbsentAt(rules, other) == {i \in 1..Len(rules) : rules[i].id \notin Ids(other)}

\* the positions of the rules of direction d to flush for, in the old list
\* (changed, removed) and in the new one (changed, added)
FlushOld(old, new, d) ==
    ChangedAt(RuleList(old, d), RuleList(new, d))
        \cup AbsentAt(RuleList(old, d), RuleList(new, d))

FlushNew(old, new, d) ==
    ChangedAt(RuleList(new, d), RuleList(old, d))
        \cup AbsentAt(RuleList(new, d), RuleList(old, d))

\* how many deletes with command cmd are due in namespace ns, direction d
DueIn(old, new, ns, cmd, d) ==
    Cardinality({i \in FlushOld(old, new, d) :
                    _get_conntrack_cmd_from_rule(ns, <<RuleList(old, d)[i]>>) = cmd})
    + Cardinality({i \in FlushNew(old, new, d) :
                    _get_conntrack_cmd_from_rule(ns, <<RuleList(new, d)[i]>>) = cmd})

Due(old, new, ns, cmd) ==
    DueIn(old, new, ns, cmd, INGRESS_DIRECTION) + DueIn(old, new, ns, cmd, EGRESS_DIRECTION)

Issued(ns, cmd) ==
    Cardinality({k \in 1..Len(events) :
        events[k].type = "execute" /\ events[k].ns = ns /\ events[k].cmd = cmd})

AllRules(fw) == Range(fw.ingress_rule_list) \cup Range(fw.egress_rule_list)

UpdateWithSnapshot ==
    last.op = "update" /\ last.firewall.admin_state_up /\ last.pre # <<>>

C7_FilteredFlushes ==
    UpdateWithSnapshot
        => LET old == last.pre[1]
               new == last.firewall
               nss == {t.ipt : t \in LastTargets}
               executed == {k \in 1..Len(events) : events[k].type = "execute"}
               cmds == {events[k].cmd : k \in executed}
                         \cup {_get_conntrack_cmd_from_rule(ns, <<r>>) :
                                  ns \in nss, r \in AllRules(old) \cup AllRules(new)}
           IN  /\ \A k \in executed :
                     /\ events[k].ns \in nss
                     /\ Len(events[k].cmd) > 6
               /\ \A ns \in nss, cmd \in cmds : Issued(ns, cmd) = Due(old, new, ns, cmd)
               /\ (/\ old.ingress_rule_list = new.ingress_rule_list
                   /\ old.egress_rule_list = new.egress_rule_list)
                     => executed = {}

\* one update with a changed, a removed and an added rule, on two targets
C7_Witness ==
    /\ UpdateWithSnapshot
    /\ Cardinality(LastTargets) >= 2
    /\ \E d \in Directions :
          ChangedAt(RuleList(last.pre[1], d), RuleList(last.firewall, d)) # {}
    /\ \E d \in Directions :
          AbsentAt(RuleList(last.pre[1], d), RuleList(last.firewall, d)) # {}
    /\ \E d \in Directions :
          AbsentAt(RuleList(last.firewall, d), RuleList(last.pre[1], d)) # {}
    /\ Len(events) > 4

(***************************************************************************)
(* C8: for the ingress list and for the egress list taken alone, removed   *)
(* is the previous rules whose id the current list lacks, added the        *)
(* current rules whose id the previous list lacks, changed both versions   *)
(* of every rule in both lists by id with differing content; a rule in     *)
(* both with equal content is in none; and the result for a firewall is    *)
(* the results of its two lists put together.                              *)
(***************************************************************************)
\* the firewall with only its rule list of direction d
Only(fw, d) ==
    IF d = INGRESS_DIRECTION
    THEN [fw EXCEPT !.egress_rule_list = <<>>]
    ELSE [fw EXCEPT !.ingress_rule_list = <<>>]

At(rules, idx) == {rules[i] : i \in idx}

DiffOfList(old, new, d) ==
    LET o == RuleList(old, d)
        n == RuleList(new, d)
        changed == _find_changed_rules(Only(old, d), Only(new, d))
        removed == _find_removed_rules(Only(old, d), Only(new, d))
        added == _find_new_rules(Only(old, d), Only(new, d))
    IN  /\ Range(removed) = At(o, AbsentAt(o, n))
        /\ Len(removed) = Cardinality(AbsentAt(o, n))
        /\ Range(added) = At(n, AbsentAt(n, o))
        /\ Len(added) = Cardinality(AbsentAt(n, o))
        /\ Range(changed) = At(o, ChangedAt(o, n)) \cup At(n, ChangedAt(n, o))
        /\ Len(changed) = Cardinality(ChangedAt(o, n)) + Cardinality(ChangedAt(n, o))
        /\ \A r \in Range(o) \cap Range(n) :
              r \notin Range(changed) \cup Range(removed) \cup Range(added)

DiffOfFirewall(old, new) ==
    LET eg(Find(_, _)) == Find(Only(old, EGRESS_DIRECTION), Only(new, EGRESS_DIRECTION))
        ig(Find(_, _)) == Find(Only(old, INGRESS_DIRECTION), Only(new, INGRESS_DIRECTION))
    IN  /\ _find_changed_rules(old, new) = eg(_find_changed_rules) \o ig(_find_changed_rules)
        /\ _find_removed_rules(old, new) = eg(_find_removed_rules) \o ig(_find_removed_rules)
        /\ _find_new_rules(old, new) = eg(_find_new_rules) \o ig(_find_new_rules)

C8_DiffPerDirection ==
    UpdateWithSnapshot
        => /\ \A d \in Directions : DiffOfList(last.pre[1], last.firewall, d)
           /\ DiffOfFirewall(last.pre[1], last.firewall)

\* a rule that moved from one direction to the other, next to a changed one
C8_Witness ==
    /\ UpdateWithSnapshot
    /\ \E r \in Range(last.pre[1].egress_rule_list) :
          /\ r \in Range(last.firewall.ingress_rule_list)
          /\ r.id \notin Ids(last.firewall.egress_rule_list)
    /\ ChangedAt(last.pre[1].ingress_rule_list, last.firewall.ingress_rule_list) # {}
    /\ Range(last.pre[1].ingress_rule_list) \cap Range(last.firewall.ingress_rule_list) # {}

(***************************************************************************)
(* C9, as written: after every successful create, with admin_state_up true *)
(* or false, pre_firewall is the firewall passed to create.                *)
(***************************************************************************)
C9_CreateSnapshotsAlways ==
    Succeeded({"create"}) => pre_firewall = <<last.firewall>>

(***************************************************************************)
(* C9, amended: after a successful create with admin_state_up true         *)
(* pre_firewall is the firewall passed to create; after a successful       *)
(* create with admin_state_up false pre_firewall is what it was before.    *)
(***************************************************************************)
C9_CreateSnapshot ==
    Succeeded({"create"})
        => IF last.firewall.admin_state_up
           THEN pre_firewall = <<last.firewall>>
           ELSE pre_firewall = last.pre

\* a create with admin_state_up false that found a snapshot in place
C9_Witness ==
    /\ Succeeded({"create"}) /\ ~last.firewall.admin_state_up
    /\ last.pre # <<>>
    /\ last.pre[1] # last.firewall
    /\ LastTargets # {}

(***************************************************************************)
(* C10: after every successful update, with admin_state_up true or false,  *)
(* pre_firewall is the firewall passed to update.                          *)
(***************************************************************************)
C10_UpdateSnapshot ==
    Succeeded({"update"}) => pre_firewall = <<last.firewall>>

\* an update with admin_state_up false replaced the snapshot of the group
C10_Witness ==
    /\ Succeeded({"update"}) /\ ~last.firewall.admin_state_up
    /\ last.pre # <<>>
    /\ last.pre[1].id = last.firewall.id
    /\ last.pre[1] # last.firewall
    /\ pre_firewall # last.pre

(***************************************************************************)
(* C11: an update with admin_state_up and no snapshot leaves what a create *)
(* with the same arguments, called in the same state and environment,      *)
(* would leave: the same committed tables in every namespace, the same set *)
(* of conntrack commands issued, the same snapshot.  The driver flushes    *)
(* before it rebuilds in update and after in create, so the commands       *)
(* issued differ when a commit fails.                                      *)
(***************************************************************************)
\* what create_firewall_group leaves, called where the step's call was made
AsCreate ==
    create_firewall_group(World(ipt, last'.fault), agent_mode, last'.apply_list,
                          CHOOSE l \in RoutersLists(last'.apply_list) : TRUE,
                          last'.firewall, pre_firewall)

\* the conntrack commands among events, each with its namespace
Flushes(evs) ==
    {[ns |-> evs[k].ns, cmd |-> evs[k].cmd] :
        k \in {i \in 1..Len(evs) : evs[i].type = "execute"}}

UpdateAsCreate ==
    (/\ nops' = nops + 1
     /\ last'.op = "update" /\ last'.firewall.admin_state_up
     /\ pre_firewall = <<>>)
        => /\ \A ns \in Namespaces : ipt'[ns].kernel = AsCreate.w.ipt[ns].kernel
           /\ Flushes(events') = Flushes(AsCreate.w.events)
           /\ pre_firewall' = AsCreate.pre

C11_UpdateAsCreate == [][UpdateAsCreate]_vars

(***************************************************************************)
(* C12: a successful create with admin_state_up issues, for every resolved *)
(* target of every router of the apply list, one conntrack delete in the   *)
(* target's namespace, without a filter, and no other command, whatever    *)
(* the rule lists are.                                                     *)
(***************************************************************************)
FlushAll(ns) == <<"ip", "netns", "exec", ns, "conntrack", "-D">>

C12_CreateFlushesAll ==
    (Succeeded({"create"}) /\ last.firewall.admin_state_up)
        => LET nss == {t.ipt : t \in LastTargets}
               executed == {k \in 1..Len(events) : events[k].type = "execute"}
           IN  /\ \A ns \in nss : Issued(ns, FlushAll(ns)) = 1
               /\ \A k \in executed :
                     events[k].ns \in nss /\ events[k].cmd = FlushAll(events[k].ns)
               /\ Cardinality(executed) = Cardinality(nss)

\* two routers, three targets, rules with ports in both lists
C12_Witness ==
    /\ Succeeded({"create"}) /\ last.firewall.admin_state_up
    /\ Len(last.apply_list) = 2
    /\ Cardinality(LastTargets) = 3
    /\ last.firewall.ingress_rule_list # <<>>
    /\ last.firewall.egress_rule_list # <<>>
    /\ Cardinality({k \in 1..Len(events) : events[k].type = "execute"}) = 3

(***************************************************************************)
(* C13: in a create or update with admin_state_up, no conntrack command in *)
(* a namespace is issued before the call's commit of that namespace's      *)
(* tables.  update_firewall_group issues its conntrack commands before it  *)
(* rebuilds and commits.                                                   *)
(***************************************************************************)
C13_FlushAfterCommit ==
    (last.op \in {"create", "update"} /\ last.firewall.admin_state_up)
        => \A k, j \in 1..Len(events) :
              (/\ events[k].type = "execute"
               /\ events[j].type = "commit"
               /\ events[j].ns = events[k].ns)
                  => j < k

(***************************************************************************)
(* C14: in create, update and apply_default_policy the tables of a target  *)
(* are committed once, after all edits of the call on that target: a call  *)
(* that returns normally has committed once in each target's namespace,    *)
(* nowhere else, and leaves no edit of a target uncommitted; a call that   *)
(* fails leaves the committed tables of each namespace either as they were *)
(* or as the call leaves them when nothing fails.                          *)
(***************************************************************************)
\* the managers as the step's call leaves them when nothing fails
Unfailing ==
    LET w == World(ipt, NoFault)
        rl == CHOOSE l \in RoutersLists(last'.apply_list) : TRUE
    IN  IF last'.op = "create"
        THEN create_firewall_group(w, agent_mode, last'.apply_list, rl,
                                   last'.firewall, pre_firewall).w.ipt
        ELSE IF last'.op = "update"
        THEN update_firewall_group(w, agent_mode, last'.apply_list, rl,
                                   last'.firewall, pre_firewall).w.ipt
        ELSE apply_default_policy(w, agent_mode, last'.apply_list, last'.firewall).ipt

Commits(evs, ns) ==
    Cardinality({k \in 1..Len(evs) : evs[k].type = "commit" /\ evs[k].ns = ns})

CommitOnceAtEnd ==
    (nops' = nops + 1 /\ last'.op \in {"create", "update", "apply_default_policy"})
        => IF last'.outcome = "ok"
           THEN LET nss == {t.ipt : t \in ResolvedTargets(agent_mode, last'.apply_list)}
                IN  \A ns \in Namespaces :
                       /\ Commits(events', ns) = IF ns \in nss THEN 1 ELSE 0
                       /\ ns \in nss => ipt'[ns].kernel = ipt'[ns].mem
                       /\ ns \notin nss => ipt'[ns].kernel = ipt[ns].kernel
           ELSE LET unfailing == Unfailing
                IN  \A ns \in Namespaces :
                       /\ Commits(events', ns) <= 1
                       /\ \/ ipt'[ns].kernel = ipt[ns].kernel
                          \/ ipt'[ns].kernel = unfailing[ns].kernel

C14_CommitOnceAtEnd == [][CommitOnceAtEnd]_vars

\* a call that failed at its second commit, after the first target's tables
\* were replaced
C14_Witness ==
    /\ last.op \in {"create", "update"} /\ last.firewall.admin_state_up
    /\ last.fault.site = "commit" /\ last.fault.at = 2
    /\ last.outcome = "FirewallInternalDriverError"
    /\ \E ns \in Namespaces : Commits(events, ns) = 1
    /\ \E t \in LastTargets : ipt[t.ipt].kernel # ipt[t.ipt].mem
    /\ nops = 2

CommitsDue(mode, apply_list) ==
    Len(Flatten([i \in 1..Len(apply_list) |->
                    _get_ipt_mgrs_with_if_prefix(mode, apply_list[i][1])]))

\* the fault of the last call was a commit the call got to
CommitFailed ==
    /\ last.fault.site = "commit"
    /\ last.fault.at <= CommitsDue(agent_mode, last.apply_list)

FlushesAsDue ==
    LET nss == {t.ipt : t \in LastTargets}
    IN  IF last.op = "update" /\ last.pre # <<>>
        THEN \A ns \in nss :
                \A cmd \in {events[k].cmd : k \in 1..Len(events)}
                              \cup {_get_conntrack_cmd_from_rule(ns, <<r>>) :
                                       r \in AllRules(last.pre[1]) \cup AllRules(last.firewall)} :
                   Issued(ns, cmd) = Due(last.pre[1], last.firewall, ns, cmd)
        ELSE \A ns \in nss : Issued(ns, FlushAll(ns)) = 1

C16_FlushFailureSwallowed ==
    (last.op \in {"create", "update"} /\ last.fault.site = "execute")
        => /\ last.outcome = "ok"
           /\ \A t \in LastTargets :
                 /\ Commits(events, t.ipt) = 1
                 /\ ipt[t.ipt].kernel = ipt[t.ipt].mem
           /\ last.firewall.admin_state_up
                 => /\ FlushesAsDue
                    /\ pre_firewall = <<last.firewall>>

\* a command that exited with status 2, and commands issued after it
C16_Witness ==
    /\ last.op = "update" /\ last.firewall.admin_state_up
    /\ last.pre # <<>> /\ last.pre[1] # last.firewall
    /\ last.outcome = "ok"
    /\ \E k \in 1..Len(events) :
          /\ events[k].type = "execute" /\ events[k].rc = 2
          /\ \E j \in (k + 1)..Len(events) : events[j].type = "execute"
    /\ pre_firewall = <<last.firewall>>

(***************************************************************************)
(* C18: a create or update of a firewall, made right after a successful    *)
(* create or update of the same firewall with the same apply list, leaves  *)
(* the tables of every target as the first left them: the same chains, the *)
(* same rules in the same order, the same jumps in FORWARD.                *)
(***************************************************************************)
\* the step applies again what the call before applied
SameApplyTwice ==
    /\ nops' = nops + 1
    /\ last.op \in {"create", "update"} /\ last.outcome = "ok"
    /\ last'.op \in {"create", "update"} /\ last'.outcome = "ok"
    /\ last'.firewall = last.firewall
    /\ last'.apply_list = last.apply_list

RebuildIdempotent ==
    SameApplyTwice
        => \A t \in ResolvedTargets(agent_mode, last'.apply_list) :
              /\ ipt'[t.ipt].kernel = ipt[t.ipt].kernel
              /\ ipt'[t.ipt].mem = ipt[t.ipt].mem

C18_RebuildIdempotent == [][RebuildIdempotent]_vars

\* an update on three targets of the firewall the snapshot holds: nothing to
\* flush for, everything rebuilt
C18_Witness ==
    /\ Succeeded({"update"}) /\ last.firewall.admin_state_up
    /\ last.pre = <<last.firewall>>
    /\ Cardinality(LastTargets) = 3
    /\ \A k \in 1..Len(events) : events[k].type = "commit"
    /\ \A t \in LastTargets :
          GroupChain(last.firewall.id, IPV4, INGRESS_DIRECTION) \in Committed(t, IPV4).chains

(***************************************************************************)
(* Vocabulary of the properties of the helpers called on their own.        *)
(***************************************************************************)
Returned(fn) == probe.fn = fn /\ probe.done

\* s.split()
RECURSIVE Words(_)
Words(s) ==
    IF Len(s) = 0 THEN <<>>
    ELSE IF SubSeq(s, 1, 1) = " " THEN Words(SubSeq(s, 2, Len(s)))
    ELSE LET n == CHOOSE k \in 1..Len(s) :
                      /\ \A i \in 1..k : SubSeq(s, i, i) # " "
                      /\ k = Len(s) \/ SubSeq(s, k + 1, k + 1) = " "
         IN  <<SubSeq(s, 1, n)>> \o Words(SubSeq(s, n + 1, Len(s)))

Verb(action) ==
    CASE action = "allow" -> "ACCEPT"
      [] action = "deny" -> "DROP"
      [] action = "reject" -> "REJECT"

\* the matches a rule asks for, then its verb
ExpectedParts(rule) ==
    (IF rule.protocol # None THEN <<"-p", rule.protocol>> ELSE <<>>)
    \o (IF rule.protocol \in {"tcp", "udp"} /\ rule.destination_port # None
        THEN <<"--dport", rule.destination_port>> ELSE <<>>)
    \o (IF rule.protocol \in {"tcp", "udp"} /\ rule.source_port # None
        THEN <<"--sport", rule.source_port>> ELSE <<>>)
    \o (IF rule.source_ip_address # None THEN <<"-s", rule.source_ip_address>> ELSE <<>>)
    \o (IF rule.destination_ip_address # None
        THEN <<"-d", rule.destination_ip_address>> ELSE <<>>)
    \o <<"-j", Verb(rule.action)>>

(***************************************************************************)
(* C17: target resolution.  A router that is not distributed resolves to   *)
(* exactly one target, its own manager with the internal-interface prefix. *)
(* A distributed router resolves to a SNAT target iff the agent mode is    *)
(* dvr_snat and the router has a SNAT manager, and to a floating-ip target *)
(* on its own manager iff its floating-ip count is not zero: at most two   *)
(* targets, the SNAT target first.                                         *)
(***************************************************************************)
C17_TargetResolution ==
    Returned("_get_ipt_mgrs_with_if_prefix") =>
        LET mode == probe.arg.mode
            ri == probe.arg.ri
            ret == probe.ret
            snat == [ipt |-> ri.snat_iptables_manager, if_prefix |-> SNAT_INT_DEV_PREFIX]
            fip == [ipt |-> iptables_manager(ri), if_prefix |-> ROUTER_2_FIP_DEV_PREFIX]
            wants_snat == mode = "dvr_snat" /\ ri.snat_iptables_manager # None
            wants_fip == ri.dist_fip_count # 0
        IN  IF ~ri.distributed
            THEN ret = <<[ipt |-> iptables_manager(ri), if_prefix |-> INTERNAL_DEV_PREFIX]>>
            ELSE /\ (\E i \in 1..Len(ret) : ret[i].if_prefix = SNAT_INT_DEV_PREFIX) <=> wants_snat
                 /\ (\E i \in 1..Len(ret) : ret[i].if_prefix = ROUTER_2_FIP_DEV_PREFIX) <=> wants_fip
                 /\ Range(ret) \subseteq {snat, fip}
                 /\ Len(ret) = Cardinality(Range(ret))
                 /\ Len(ret) \in {0, 1, 2}
                 /\ wants_snat => ret[1] = snat

\* a distributed router on the SNAT host, with floating ips: two targets
C17_Witness ==
    /\ Returned("_get_ipt_mgrs_with_if_prefix")
    /\ probe.arg.ri.distributed /\ probe.arg.mode = "dvr_snat"
    /\ Len(probe.ret) = 2
    /\ probe.ret[1].if_prefix = SNAT_INT_DEV_PREFIX
    /\ probe.ret[2].if_prefix = ROUTER_2_FIP_DEV_PREFIX

(***************************************************************************)
(* C19: rule translation.  The words of the translated rule are, in this   *)
(* order and with nothing else: the protocol match iff the protocol is     *)
(* set, the destination-port and the source-port match iff the protocol    *)
(* is tcp or udp and the port is set, the source and the destination       *)
(* address match iff the address is set, and the verb ACCEPT, DROP or      *)
(* REJECT for the action allow, deny or reject.                            *)
(***************************************************************************)
C19_RuleTranslation ==
    Returned("_convert_fwaas_to_iptables_rule") =>
        Words(probe.ret) = ExpectedParts(probe.arg)

\* allow tcp to port 80, no addresses and no source port
C19_Witness ==
    /\ Returned("_convert_fwaas_to_iptables_rule")
    /\ probe.arg.action = "allow" /\ probe.arg.protocol = "tcp"
    /\ probe.arg.source_port = None /\ probe.arg.destination_port = "80"
    /\ probe.arg.source_ip_address = None /\ probe.arg.destination_ip_address = None
    /\ Words(probe.ret) = <<"-p", "tcp", "--dport", "80", "-j", "ACCEPT">>

(***************************************************************************)
(* C20: chain names never collide.  For two distinct triples (group id,    *)
(* IP version, direction) the names under which the chains are created,    *)
(* looked up and jumped into differ, and none is the name of the default   *)
(* chain.                                                                  *)
(***************************************************************************)
C20_ChainNamesDistinct ==
    Returned("_get_chain_name") =>
        /\ probe.ret[1].created # probe.ret[2].created
        /\ probe.ret[1].looked_up # probe.ret[2].looked_up
        /\ probe.ret[1].jump # probe.ret[2].jump
        /\ \A i \in {1, 2} : probe.ret[i].looked_up # get_chain_name(FWAAS_DEFAULT_CHAIN)

(***************************************************************************)
(* Vocabulary of the properties of the policy store.                       *)
(***************************************************************************)
Members(d, p) == Range(d.firewall_rules[p])

\* the policies rule r is a member of
PoliciesOf(d, r) == {p \in PolicyIds : r \in Members(d, p)}

\* the last request was op and succeeded
Answered(op) == call.op = op /\ call.status = "ok"

\* the step is the handling of a request op on an existing policy
Handles(op) ==
    /\ <<db', call'>> # <<db, call>>
    /\ call'.op = op
    /\ call'.id \in PolicyIds /\ db.exists[call'.id]

\* ... of a rule that exists and is not in the policy yet
HandlesInsert ==
    /\ Handles("insert_rule")
    /\ call'.firewall_rule_id \in RuleIds \ Members(db, call'.id)

\* the anchors of the request that are given
Anchors(c) == {c.insert_before, c.insert_after} \ {None}

\* seq without its element x keeps the order of the others
IsWithout(new, old, x) ==
    /\ x \notin Range(new)
    /\ \E i \in 1..Len(old) :
          /\ old[i] = x
          /\ new = SubSeq(old, 1, i - 1) \o SubSeq(old, i + 1, Len(old))

\* the positions of policy p are 1..N in list order
Positions1toN(d, p) ==
    \A i \in 1..Len(d.firewall_rules[p]) :
        /\ d.position[d.firewall_rules[p][i]] = i
        /\ d.firewall_policy_id[d.firewall_rules[p][i]] = p
        /\ \A j \in 1..Len(d.firewall_rules[p]) :
              j # i => d.firewall_rules[p][j] # d.firewall_rules[p][i]

BeforeWins ==
    (/\ HandlesInsert
     /\ call'.insert_before \in Members(db, call'.id)
     /\ call'.insert_after \in Members(db, call'.id))
        => LET old == db.firewall_rules[call'.id]
               new == db'.firewall_rules[call'.id]
               r == call'.firewall_rule_id
           IN  /\ call'.status = "ok"
               /\ new = InsertAt(old, IndexOf(old, call'.insert_before), r)
               /\ new[IndexOf(new, r) + 1] = call'.insert_before
               /\ db' = insert_rule(db, call'.id, r, call'.insert_before, None).db

C22_BeforeWins == [][BeforeWins]_vars

\* inserted ahead of insert_before, with insert_after another rule, further up
C22_Witness ==
    /\ Answered("insert_rule")
    /\ call.insert_before # None /\ call.insert_after # None
    /\ call.insert_before # call.insert_after
    /\ db.firewall_rules[call.id]
          = <<call.insert_after, call.firewall_rule_id, call.insert_before>>

(***************************************************************************)
(* C23: an insert without anchors puts the rule at the head of the list,   *)
(* position 1, and moves the members down by one, in the order they had;   *)
(* into an empty policy it leaves the list of that one rule.               *)
(***************************************************************************)
Prepends ==
    (HandlesInsert /\ Anchors(call') = {})
        => /\ call'.status = "ok"
           /\ db'.firewall_rules[call'.id]
                 = <<call'.firewall_rule_id>> \o db.firewall_rules[call'.id]
           /\ db'.position[call'.firewall_rule_id] = 1
           /\ \A r \in Members(db, call'.id) : db'.position[r] = db.position[r] + 1

C23_Prepends == [][Prepends]_vars

\* inserted without anchors ahead of two members
C23_Witness ==
    /\ Answered("insert_rule") /\ Anchors(call) = {}
    /\ Len(db.firewall_rules[call.id]) = 3
    /\ db.firewall_rules[call.id][1] = call.firewall_rule_id

(***************************************************************************)
(* C24: an insert with an anchor that is not a member of the policy, be it *)
(* a member of the other policy, is rejected as a bad request, and the     *)
(* rule is not added.  As claimed: whatever the rule of the request.       *)
(***************************************************************************)
AnchorRejected ==
    (/\ Handles("insert_rule")
     /\ ~(Anchors(call') \subseteq Members(db, call'.id)))
        => call'.status = "BadRequest" /\ db' = db

C24_AnchorRejectedAlways == [][AnchorRejected]_vars

(***************************************************************************)
(* C24, amended: the insert of a rule that exists and is not yet a member  *)
(* of the policy, with an anchor that is not a member of the policy, be it *)
(* a member of the other policy, is rejected as a bad request, and the     *)
(* rule is not added.                                                      *)
(***************************************************************************)
AnchorRejectedForRule ==
    (/\ HandlesInsert
     /\ ~(Anchors(call') \subseteq Members(db, call'.id)))
        => call'.status = "BadRequest" /\ db' = db

C24_AnchorRejected == [][AnchorRejectedForRule]_vars

\* rejected with an anchor that is in the other policy
C24_Witness ==
    /\ call.op = "insert_rule" /\ call.status = "BadRequest"
    /\ call.insert_before # None /\ call.insert_after = None
    /\ call.id = "fwp0" /\ call.insert_before \in Members(db, "fwp1")
    /\ call.firewall_rule_id \in RuleIds
    /\ PoliciesOf(db, call.firewall_rule_id) = {}

(***************************************************************************)
(* C25: removing a rule that is not a member of the policy fails as not    *)
(* found; removing a member removes that rule alone, keeps the order of    *)
(* the others, recomputes their positions and clears audited.              *)
(***************************************************************************)
RemovesMember ==
    LET id == call'.id
        r == call'.firewall_rule_id
    IN  r \in Members(db, id)
            => /\ call'.status = "ok"
               /\ IsWithout(db'.firewall_rules[id], db.firewall_rules[id], r)
               /\ \A q \in PolicyIds \ {id} : db'.firewall_rules[q] = db.firewall_rules[q]
               /\ Positions1toN(db', id) /\ db'.position[r] = 0
               /\ ~db'.audited[id]

RemoveNotFound ==
    Handles("remove_rule")
        => /\ call'.firewall_rule_id \notin Members(db, call'.id)
                => call'.status = "NotFound" /\ db' = db
           /\ RemovesMember

C25_RemoveNotFound == [][RemoveNotFound]_vars

(***************************************************************************)
(* C25, amended: removing a rule that does not exist fails as not found,   *)
(* removing a rule that exists and is not a member of the policy is        *)
(* rejected as a bad request; removing a member removes that rule alone,   *)
(* keeps the order of the others, recomputes their positions and clears    *)
(* audited.                                                                *)
(***************************************************************************)
Removes ==
    Handles("remove_rule")
        => /\ call'.firewall_rule_id \notin RuleIds
                => call'.status = "NotFound" /\ db' = db
           /\ call'.firewall_rule_id \in RuleIds \ Members(db, call'.id)
                => call'.status = "BadRequest" /\ db' = db
           /\ RemovesMember

C25_Removes == [][Removes]_vars

\* fwr1 was removed, fwr0 and fwr2 stay in their order
C25_Witness ==
    /\ Answered("remove_rule")
    /\ ~db.audited[call.id]
    /\ db.firewall_rules[call.id] = <<"fwr0", "fwr2">>
    /\ call.firewall_rule_id = "fwr1"
    /\ db.position["fwr2"] = 2 /\ db.position["fwr1"] = 0

(***************************************************************************)
(* C26: a policy is not audited after a successful insert, remove or       *)
(* update on it, audited before or not, unless the update itself sets      *)
(* audited to true; then it is audited.                                    *)
(***************************************************************************)
AuditedCleared ==
    /\ \A op \in {"insert_rule", "remove_rule", "update_firewall_policy"} :
          (Handles(op) /\ call'.status = "ok")
              => db'.audited[call'.id] = (op = "update_firewall_policy" /\ call'.audited = "True")
    /\ \A p \in PolicyIds :
          db'.firewall_rules[p] # db.firewall_rules[p]
              => db'.audited[p] = (call'.id = p /\ call'.audited = "True")

C26_AuditedCleared == [][AuditedCleared]_vars

\* an update without audited in its body left the policy not audited
C26_Witness ==
    /\ Answered("update_firewall_policy") /\ call.audited = Unset
    /\ call.id = "fwp0" /\ ~db.audited["fwp0"]
    /\ Len(db.firewall_rules["fwp0"]) = 2

(***************************************************************************)
(* C27: a rule is a member of at most one policy; inserting a rule of      *)
(* another policy, or listing it when a policy is created or updated,      *)
(* succeeds and takes it out of the policy it was in.                      *)
(***************************************************************************)
AtMostOnePolicy == \A r \in RuleIds : Cardinality(PoliciesOf(db, r)) <= 1

Reassociates ==
    /\ AtMostOnePolicy'
    /\ (/\ HandlesInsert
        /\ Anchors(call') \subseteq Members(db, call'.id)
        /\ PoliciesOf(db, call'.firewall_rule_id) # {})
            => /\ call'.status = "ok"
               /\ PoliciesOf(db', call'.firewall_rule_id) = {call'.id}
    /\ \A r \in RuleIds :
          (/\ call'.op \in {"create_firewall_policy", "update_firewall_policy"}
           /\ call'.status = "ok" /\ <<db', call'>> # <<db, call>>
           /\ r \in Members(db', call'.id))
              => PoliciesOf(db', r) = {call'.id}

C27_AtMostOnePolicy == [][Reassociates]_vars

\* fwp1 was created with the rules fwp0 had, which fwp0 has no more
C27_Witness ==
    /\ Answered("create_firewall_policy") /\ call.id = "fwp1"
    /\ Len(db.firewall_rules["fwp1"]) = 2
    /\ db.firewall_rules["fwp0"] = <<>>
    /\ ~db.audited["fwp0"]

(***************************************************************************)
(* C29: wholesale replace.  After a successful create or update with       *)
(* admin_state_up, on every resolved target and for each version: the      *)
(* chains of the group hold the rules of the firewall passed and no other, *)
(* FORWARD jumps into them once per port passed and for no other port, the *)
(* default chain holds the one rule that drops everything, and FORWARD     *)
(* jumps into it once per side of each port passed; whatever was applied   *)
(* for the group before.                                                   *)
(***************************************************************************)
\* the FORWARD rules of a target that jump into one of chains, in order
JumpsInto(t, v, chains) ==
    SelectSeq(Forward(t, v), LAMBDA r : \E c \in chains : JumpsTo(r, c))

\* one jump per port on side flag into chain
PortJumps(t, flag, chain) ==
    [i \in 1..Len(t.ports) |-> JumpRule(flag, _get_intf_name(t.if_prefix, t.ports[i]), chain)]

C29_WholesaleReplace ==
    (Succeeded({"create", "update"}) /\ last.firewall.admin_state_up)
        => \A t \in LastTargets, v \in Versions :
              LET fwid == last.firewall.id
                  ichain == GroupChain(fwid, v, INGRESS_DIRECTION)
                  ochain == GroupChain(fwid, v, EGRESS_DIRECTION)
              IN  /\ \A d \in Directions :
                        ChainContent(Committed(t, v), GroupChain(fwid, v, d))
                            = ExpectedChain(last.firewall, v, d)
                  /\ JumpsInto(t, v, {ichain, ochain})
                        = PortJumps(t, "-o", ichain) \o PortJumps(t, "-i", ochain)
                  /\ ChainContent(Committed(t, v), DefaultChain) = <<"-j DROP">>
                  /\ JumpsInto(t, v, {DefaultChain})
                        = PortJumps(t, "-o", DefaultChain) \o PortJumps(t, "-i", DefaultChain)

\* the group was applied with other rules to two ports of R1 and to R2, then
\* with these rules to one port of R1
C29_Witness ==
    /\ Succeeded({"update"}) /\ last.firewall.admin_state_up
    /\ last.pre # <<>> /\ last.pre[1].id = last.firewall.id
    /\ last.pre[1].admin_state_up
    /\ last.pre[1].ingress_rule_list # last.firewall.ingress_rule_list
    /\ last.apply_list = <<<<R1, <<P1>>>>>>
    /\ GroupChain(last.firewall.id, IPV4, INGRESS_DIRECTION)
          \in ipt[iptables_manager(R2)].kernel[IPV4].chains

(***************************************************************************)
(* C30: the interface a jump rule matches on is the first 14 characters of *)
(* the interface prefix followed by the port id, with nothing after it; so *)
(* two port ids that agree on their first 14 - Len(prefix) characters get  *)
(* the same jump rules on a target, and two that do not get different      *)
(* ones.                                                                   *)
(***************************************************************************)
\* rule text r matches on exactly the interface intf, on one side
MatchesOn(r, intf) ==
    \E flag \in {"-o", "-i"} : StartsWith(r, flag \o " " \o intf \o " -j ")

C30_InterfaceMatch ==
    Returned("_enable_policy_chain") =>
        LET if_prefix == probe.arg.if_prefix
            pa == probe.arg.router_fw_ports[1]
            pb == probe.arg.router_fw_ports[2]
            Name(port) == SubSeq(if_prefix \o port, 1, 14)
            kept == 14 - Len(if_prefix)
            RulesOf(port) == {r \in Range(probe.ret) : MatchesOn(r, Name(port))}
        IN  /\ Len(probe.ret) = 8
            /\ \A r \in Range(probe.ret) : MatchesOn(r, Name(pa)) \/ MatchesOn(r, Name(pb))
            /\ RulesOf(pa) # {} /\ RulesOf(pb) # {}
            /\ IF SubSeq(pa, 1, kept) = SubSeq(pb, 1, kept)
               THEN /\ RulesOf(pa) = RulesOf(pb)
                    /\ \A k \in {1, 3, 5, 7} : probe.ret[k] = probe.ret[k + 1]
               ELSE /\ RulesOf(pa) \cap RulesOf(pb) = {}
                    /\ \A k \in {1, 3, 5, 7} : probe.ret[k] # probe.ret[k + 1]

\* two ports that differ from their 11th character on, behind the prefix rfp-
C30_Witness ==
    /\ Returned("_enable_policy_chain")
    /\ probe.arg.if_prefix = ROUTER_2_FIP_DEV_PREFIX
    /\ probe.arg.router_fw_ports = <<P1, P9>>
    /\ probe.ret[1] = probe.ret[2]
    /\ probe.ret[1] = "-o rfp-1a2b3c4d-5 -j neutron-l3-agent-iv411111111"

(***************************************************************************)
(* Calls on different routers, run at once and run one after the other.    *)
(***************************************************************************)
\* the conntrack commands of a log, in the order issued
FlushSeq(evs) ==
    LET ex == SelectSeq(evs, LAMBDA e : e.type = "execute")
    IN  [i \in 1..Len(ex) |-> [ns |-> ex[i].ns, cmd |-> ex[i].cmd]]

\* the whole call of a thread, on tables mgrs and snapshot pre
WholeCall(c, mgrs, pre) ==
    LET w == World(mgrs, NoFault)
        routers_list == TheRoutersList(c.apply_list)
    IN  IF c.op = "create"
        THEN create_firewall_group(w, agent_mode, c.apply_list, routers_list,
                                   c.firewall, pre)
        ELSE IF c.op = "update"
        THEN update_firewall_group(w, agent_mode, c.apply_list, routers_list,
                                   c.firewall, pre)
        ELSE delete_firewall_group(w, agent_mode, c.apply_list, c.firewall, pre)

\* what the two calls leave when the call of thread t1 ends before the call
\* of thread t2 starts, on a driver just constructed
Serial(t1, t2) ==
    CHOOSE s \in UNION {
        {[kernel |-> [ns \in Namespaces |-> r2.w.ipt[ns].kernel],
          flushes |-> (t1 :> FlushSeq(r1.w.events)) @@ (t2 :> FlushSeq(r2.w.events)),
          outcome |-> (t1 :> Outcome(r1.w)) @@ (t2 :> Outcome(r2.w))] :
            r2 \in {WholeCall(threads[t2], r1.w.ipt, r1.pre)}} :
        r1 \in {WholeCall(threads[t1], [ns \in Namespaces |-> NewManager], <<>>)}} : TRUE

\* what the two calls have left in this state
Concurrent ==
    [kernel |-> [ns \in Namespaces |-> ipt[ns].kernel],
     flushes |-> [t \in ThreadIds |-> FlushSeq(threads[t].events)],
     outcome |-> [t \in ThreadIds |-> threads[t].outcome]]

BothEnded ==
    \A t \in ThreadIds : threads[t].pc = Steps(threads[t].op, threads[t].firewall)

\* C28: two calls of one driver that run at once on different routers leave,
\* however their steps interleave, the committed tables, the conntrack
\* flushes and the outcomes that the two calls leave when run one after the
\* other.
C28_Independent ==
    BothEnded => \E t1 \in ThreadIds : \E t2 \in ThreadIds \ {t1} :
                     Concurrent = Serial(t1, t2)

(***************************************************************************)
(* Conntrack filters.                                                      *)
(***************************************************************************)
\* the keys of the conntrack filter that a rule sets, each with its option
FilterKeys(rule) ==
    LET keys == <<[opt |-> "-p", set |-> rule.protocol # None, val |-> rule.protocol],
                  [opt |-> "-f", set |-> rule.ip_version # 0,
                   val |-> IF rule.ip_version = 6 THEN "ipv6" ELSE "ipv4"],
                  [opt |-> "--dport", set |-> rule.destination_port # None,
                   val |-> rule.destination_port],
                  [opt |-> "--sport", set |-> rule.source_port # None,
                   val |-> rule.source_port]>>
    IN  SelectSeq(keys, LAMBDA k : k.set)

SameKeys(ra, rb) ==
    /\ ra.protocol = rb.protocol
    /\ ra.ip_version = rb.ip_version
    /\ ra.destination_port = rb.destination_port
    /\ ra.source_port = rb.source_port

PlacedAtAnchor ==
    (/\ Handles("insert_rule")
     /\ call'.status = "ok"
     /\ Cardinality(Anchors(call')) = 1
     /\ call'.insert_before = None \/ call'.insert_after = None)
        => LET old == db.firewall_rules[call'.id]
               new == db'.firewall_rules[call'.id]
               r == call'.firewall_rule_id
           IN  /\ r \in Range(new)
               /\ Range(new) = Range(old) \cup {r}
               /\ Len(new) = Len(old) + 1
               /\ IsWithout(old, new, r)
               /\ call'.insert_before # None
                     => new[IndexOf(new, r) + 1] = call'.insert_before
               /\ call'.insert_after # None
                     => /\ IndexOf(new, r) > 1
                        /\ new[IndexOf(new, r) - 1] = call'.insert_after

C32_PlacedAtAnchor == [][PlacedAtAnchor]_vars

\* inserted behind insert_after, the first of two members
C32_Witness ==
    /\ Answered("insert_rule")
    /\ call.insert_before = None /\ call.insert_after # None
    /\ Len(db.firewall_rules[call.id]) = 3
    /\ db.firewall_rules[call.id][1] = call.insert_after
    /\ db.firewall_rules[call.id][2] = call.firewall_rule_id

(***************************************************************************)
(* C33: a rejected change of a rule list leaves the store as it was.  An   *)
(* insert of a rule that is in the policy already is answered Conflict, so *)
(* no rule is twice in a list; an update whose list names a rule that does *)
(* not exist is answered NotFound and adds none of the rules it names.     *)
(* After either the lists and the positions are what they were.            *)
(***************************************************************************)
RejectedUnchanged ==
    /\ (Handles("insert_rule") /\ call'.firewall_rule_id \in Members(db, call'.id))
           => call'.status = "Conflict" /\ db' = db
    /\ (Handles("update_firewall_policy") /\ call'.status = "NotFound") => db' = db
    /\ \A id \in PolicyIds, audited \in {Unset, "True", "False"} :
           db.exists[id]
               => update_firewall_policy(db, id, <<"fwr0", NoSuchId>>, audited)
                      = Response(db, "NotFound")
    /\ \A p \in PolicyIds :
           \A i, j \in 1..Len(db'.firewall_rules[p]) :
               i # j => db'.firewall_rules[p][i] # db'.firewall_rules[p][j]

C33_RejectedUnchanged == [][RejectedUnchanged]_vars

\* a member of a list of two was inserted again, ahead of itself
C33_Witness ==
    /\ call.op = "insert_rule" /\ call.status = "Conflict"
    /\ call.insert_before = call.firewall_rule_id
    /\ Len(db.firewall_rules[call.id]) = 2
    /\ db.position[call.firewall_rule_id] = 1

(***************************************************************************)
(* Statuses of a firewall group.                                           *)
(***************************************************************************)
\* the step is the agent handling a message op, its driver calls returning
AgentHandled(op) ==
    /\ ctl.rpc # <<>> /\ ctl'.rpc = Tail(ctl.rpc)
    /\ ctl'.handled = Head(ctl.rpc) /\ ctl'.handled.op = op
    /\ ctl'.driver_ok

\* C34: the status the agent reports after its driver calls returned is a
\* function of the message.  For a create with ports to apply it is ACTIVE.
\* For an update it is DOWN when admin_state_up is false and the group is
\* applied to ports, INACTIVE when the update takes the group off its last
\* port or neither adds nor deletes a port, ACTIVE otherwise.  One status is
\* reported per message.
StatusReported ==
    /\ AgentHandled("create")
           => ctl'.handled.add_port_ids # {} /\ ctl'.reported = <<ACTIVE>>
    /\ AgentHandled("update")
           => LET msg == ctl'.handled
                  last_port == msg.del_port_ids # {} /\ msg.last_port
                  unchanged == msg.add_port_ids = {} /\ msg.del_port_ids = {}
                  applied == msg.add_port_ids # {}
              IN  /\ Len(ctl'.reported) = 1
                  /\ ctl'.reported[1]
                        = (IF last_port \/ unchanged THEN INACTIVE
                           ELSE IF ~msg.admin_state_up /\ applied THEN DOWN
                           ELSE ACTIVE)
                  /\ ctl'.fwg.status = ctl'.reported[1]

PluginAnswers(op) ==
    /\ ctl'.response # ctl.response \/ ctl'.fwg # ctl.fwg
    /\ ctl'.handled = ctl.handled /\ Len(ctl'.rpc) >= Len(ctl.rpc)
    /\ ctl'.response.op = op

\* C35: a firewall group created with ports and a policy starts in
\* PENDING_CREATE; while the group is in a pending status an update of its
\* ports is answered Conflict and leaves its ports as they were; once the
\* agent has reported ACTIVE the update is accepted and sets the ports.
PendingRefused ==
    /\ (PluginAnswers("create") /\ ctl'.fwg.ports # {} /\ ctl'.fwg.policy)
           => ctl'.fwg.status = PENDING_CREATE
    /\ (PluginAnswers("update") /\ ctl.fwg.status \in PendingStatuses)
           => ctl'.response.code = "Conflict" /\ ctl'.fwg = ctl.fwg /\ ctl'.rpc = ctl.rpc
    /\ (PluginAnswers("update") /\ ctl.fwg.status = ACTIVE /\ ctl.reported = <<ACTIVE>>)
           => ctl'.response.code = "ok" /\ ctl'.fwg.ports = ctl'.response.ports
    /\ \A ports \in SUBSET GroupPorts, admin_state_up \in BOOLEAN :
           LET r == plugin_update_firewall_group(ctl.fwg, ports, admin_state_up)
           IN  IF ctl.fwg.status \in PendingStatuses
               THEN r.code = "Conflict" /\ r.fwg.ports = ctl.fwg.ports
               ELSE ctl.fwg.status = ACTIVE => r.code = "ok" /\ r.fwg.ports = ports

C35_PendingRefused == [][PendingRefused]_vars

\* created in PENDING_CREATE, reported ACTIVE by the agent, then updated to
\* other ports
C35_Witness ==
    /\ ctl.handled.op = "create" /\ ctl.reported = <<ACTIVE>>
    /\ ctl.response.op = "update" /\ ctl.response.code = "ok"
    /\ ctl.fwg.status = PENDING_UPDATE
    /\ ctl.fwg.ports = {"port_id2", "port_id3"}
    /\ ctl.rpc # <<>> /\ Head(ctl.rpc).add_port_ids = {"port_id3"}

(***************************************************************************)
(* Several groups on one target.                                           *)
(***************************************************************************)
\* the ports the calls name
CallPorts == {P1, P2, P3, P4, P5, P6, P7}

\* the committed FORWARD chain of namespace ns sends traffic of interface
\* intf into a chain of group fwid
AppliedTo(ns, v, fwid, intf) ==
    \E r \in Range(ChainContent(ipt[ns].kernel[v], "FORWARD")) :
        /\ OnInterface(r, intf)
        /\ \E d \in Directions : JumpsTo(r, GroupChain(fwid, v, d))

\* ... and, on both sides, into the default chain, which exists
Covered(ns, v, intf) ==
    /\ DefaultChain \in ipt[ns].kernel[v].chains
    /\ \A flag \in {"-o", "-i"} :
           JumpRule(flag, intf, DefaultChain)
               \in Range(ChainContent(ipt[ns].kernel[v], "FORWARD"))

\* C36: after any sequence of create, update, delete and
\* apply_default_policy calls for several groups that share a target, for
\* every group that is applied there and every port of it, the target's
\* FORWARD chain still holds the catch-all jumps for that port into the
\* default chain, and the default chain exists.
C36_DefaultDenyCoverage ==
    \A ns \in Namespaces, v \in Versions, fwid \in {FW1, FW2}, port \in CallPorts,
       if_prefix \in {INTERNAL_DEV_PREFIX, SNAT_INT_DEV_PREFIX, ROUTER_2_FIP_DEV_PREFIX} :
        AppliedTo(ns, v, fwid, _get_intf_name(if_prefix, port))
            => Covered(ns, v, _get_intf_name(if_prefix, port))

(***************************************************************************)
(* C37: when create, update, delete or apply_default_policy ends with      *)
(* FirewallInternalDriverError, self.pre_firewall is what it was when the  *)
(* call started: not the firewall of the call and not cleared.             *)
(***************************************************************************)
C37_SnapshotKeptOnFailure ==
    (/\ last.op \in {"create", "update", "delete", "apply_default_policy"}
     /\ last.outcome = "FirewallInternalDriverError")
        => pre_firewall = last.pre

\* an update to other rules failed in its commit: the snapshot is still the
\* firewall of the create before it
C37_Witness ==
    /\ last.op = "update" /\ last.firewall.admin_state_up
    /\ last.outcome = "FirewallInternalDriverError"
    /\ last.pre # <<>> /\ last.pre # <<last.firewall>>
    /\ pre_firewall = last.pre

\* the chains of group fwid in a table of version v: which exist, what they
\* hold, and the FORWARD rules that jump into them, in order
GroupChains(tbl, fwid, v) ==
    [exist |-> {d \in Directions : GroupChain(fwid, v, d) \in tbl.chains},
     content |-> [d \in Directions |-> ChainContent(tbl, GroupChain(fwid, v, d))],
     jumps |-> SelectSeq(ChainContent(tbl, "FORWARD"),
                         LAMBDA r : \E d \in Directions :
                                        JumpsTo(r, GroupChain(fwid, v, d)))]

\* C38: a call for group G that follows a call for another group leaves the
\* chains of that other group on every target as they were: which of them
\* exist, their rules and the order of the rules, and the FORWARD jumps into
\* them.
OthersUntouched ==
    (/\ nops' = nops + 1
     /\ last.op # "init"
     /\ last.firewall.id # last'.firewall.id)
        => \A ns \in Namespaces, v \in Versions :
               GroupChains(ipt'[ns].kernel[v], last.firewall.id, v)
                   = GroupChains(ipt[ns].kernel[v], last.firewall.id, v)

C38_OthersUntouched == [][OthersUntouched]_vars

\* list b holds the rules of list a, each as often, in some order
Permuted(a, b) ==
    /\ Len(a) = Len(b)
    /\ \A r \in Range(a) \cup Range(b) :
           Cardinality({i \in 1..Len(a) : a[i] = r})
               = Cardinality({i \in 1..Len(b) : b[i] = r})

\* the last call was an update whose lists hold the snapshot's rules, ids and
\* content alike, in some order
OnlyPermutes ==
    /\ last.op = "update" /\ last.firewall.admin_state_up
    /\ last.pre # <<>>
    /\ Permuted(last.pre[1].ingress_rule_list, last.firewall.ingress_rule_list)
    /\ Permuted(last.pre[1].egress_rule_list, last.firewall.egress_rule_list)

\* C39: an update whose ingress and egress lists hold the snapshot's rules in
\* another order finds no changed, no new and no removed rule and runs no
\* conntrack command, and when it succeeds the chains of the group hold the
\* rules in the order of the new lists.
C39_PermutationNoFlush ==
    OnlyPermutes
        => /\ _find_changed_rules(last.pre[1], last.firewall) = <<>>
           /\ _find_new_rules(last.pre[1], last.firewall) = <<>>
           /\ _find_removed_rules(last.pre[1], last.firewall) = <<>>
           /\ Flushes(events) = {}
           /\ last.outcome = "ok"
                 => \A t \in LastTargets, v \in Versions, d \in Directions :
                       ChainContent(Committed(t, v), GroupChain(last.firewall.id, v, d))
                           = ExpectedChain(last.firewall, v, d)

\* an update put the rules of both lists in another order on some target
C39_Witness ==
    /\ OnlyPermutes /\ last.outcome = "ok"
    /\ last.pre[1].ingress_rule_list # last.firewall.ingress_rule_list
    /\ last.pre[1].egress_rule_list # last.firewall.egress_rule_list
    /\ LastTargets # {}
    /\ Flushes(events) = {}
    /\ \E t \in LastTargets, v \in Versions, d \in Directions :
          /\ Len(ExpectedChain(last.firewall, v, d)) >= 4
          /\ ChainContent(Committed(t, v), GroupChain(last.firewall.id, v, d))
                = ExpectedChain(last.firewall, v, d)
          /\ ExpectedChain(last.firewall, v, d) # ExpectedChain(last.pre[1], v, d)

\* a distributed router without floating ip whose SNAT context is missing
\* or does not count because the agent is not the SNAT host
NoTargetRouter(mode, ri) ==
    /\ ri.distributed
    /\ mode # "dvr_snat" \/ ri.snat_iptables_manager = None
    /\ ri.dist_fip_count = 0

\* C40: a call whose routers all are distributed, without floating ip and
\* without a SNAT context that counts ends without error, leaves every table
\* as it was, commits nothing and runs no conntrack command; a create or an
\* update with admin_state_up records the firewall as the snapshot.
NoTargetNoEffect ==
    (/\ nops' = nops + 1
     /\ \A i \in 1..Len(last'.apply_list) :
            NoTargetRouter(agent_mode, last'.apply_list[i][1]))
        => /\ last'.outcome = "ok"
           /\ ipt' = ipt
           /\ events' = <<>>
           /\ (last'.op \in {"create", "update"} /\ last'.firewall.admin_state_up)
                 => pre_firewall' = <<last'.firewall>>

C40_NoTargetNoEffect == [][NoTargetNoEffect]_vars

\* on an agent that is not the SNAT host, an update for a router with a SNAT
\* context took the place of another group's snapshot and left that group's
\* chains alone, with a commit that was to fail
C40_Witness ==
    /\ agent_mode = "dvr"
    /\ last.op = "update" /\ last.firewall.admin_state_up
    /\ \E i \in 1..Len(last.apply_list) : last.apply_list[i][1] = R4
    /\ \A i \in 1..Len(last.apply_list) : NoTargetRouter(agent_mode, last.apply_list[i][1])
    /\ last.fault.site = "commit"
    /\ last.outcome = "ok"
    /\ last.pre # <<>> /\ last.pre[1].id = FW2
    /\ pre_firewall = <<last.firewall>>
    /\ events = <<>>
    /\ GroupChain(FW2, IPV4, INGRESS_DIRECTION) \in ipt[iptables_manager(R1)].kernel[IPV4].chains

====
